---- MODULE Spec2Model ----
(***************************************************************************)
(* The pipeline executor of trigger: the slot registry (activePipelines), *)
(* the two phases of executePipeline, the step loop (runSteps and         *)
(* executeStep), cancelPipeline, shutdownAll, recoverStaleRuns, and the   *)
(* persisted run and step rows they write.                                *)
(*                                                                         *)
(* The program is one single-threaded event loop.  Every action below is  *)
(* one synchronous stretch of code between two suspension points (await). *)
(***************************************************************************)
EXTENDS Integers, Sequences, FiniteSets, TLC

\* ---------------------------------------------------------------- bounds
MaxRuns == 2                 \* run IDs handed out over the whole behaviour

\* run IDs in use: a run started by a trigger-pipeline step takes one too, and
\* a chain of three nested runs is one triggered run and two child runs
MaxRunIds == MaxRuns + 1
Runs == 1 .. MaxRunIds
NoRun == 0                   \* "no entry" in a map keyed by run ID
GLOBAL == 0                  \* the topic "global" (run topics are run IDs)
Topics == 0 .. MaxRunIds
Null == <<>>                 \* SQL NULL / undefined for a text column

\* ----------------------------------------------- the configuration in use
\* What loadAllConfigs returns: two pipelines of namespace "ns".  "ns:p1" has
\* three steps whose action is registered; "ns:p2" has a step whose action is
\* not in the registry and a step whose config refers to {{param.x}}.
\* "ns:zz" is a key no namespace config defines.  "ns:a" triggers "ns:b",
\* which triggers "ns:c"; "ns:x" and "ns:y" trigger each other.  The config of
\* a trigger-pipeline step is the key `${namespace}:${pipeline_id}` it names.
Keys == {"ns:p1", "ns:p2", "ns:zz", "ns:a", "ns:b", "ns:c", "ns:x", "ns:y"}

TRIGGER == "trigger-pipeline"

Registry == {"act", TRIGGER}

Pipeline(key) ==
    CASE key = "ns:p1" -> << [id |-> "s1", action |-> "act", config |-> "plain"],
                             [id |-> "s2", action |-> "act", config |-> "plain"],
                             [id |-> "s3", action |-> "act", config |-> "plain"] >>
      [] key = "ns:p2" -> << [id |-> "s1", action |-> "ghost", config |-> "plain"],
                             [id |-> "s2", action |-> "act", config |-> "{{param.x}}"] >>
      [] key = "ns:a" -> << [id |-> "s1", action |-> TRIGGER, config |-> "ns:b"] >>
      [] key = "ns:b" -> << [id |-> "s1", action |-> TRIGGER, config |-> "ns:c"] >>
      [] key = "ns:c" -> << [id |-> "s1", action |-> "act", config |-> "plain"] >>
      [] key = "ns:x" -> << [id |-> "s1", action |-> TRIGGER, config |-> "ns:y"] >>
      [] key = "ns:y" -> << [id |-> "s1", action |-> TRIGGER, config |-> "ns:x"] >>
      [] OTHER -> << >>

Configured == Keys \ {"ns:zz"}

\* the calls of executePipeline: key, options.dryRun, and params, which is
\* either {x: "v"} ("x") or {} ("none")
Requests ==
    { [key |-> "ns:p1", dryRun |-> FALSE, params |-> "none"],
      [key |-> "ns:p1", dryRun |-> TRUE,  params |-> "none"],
      [key |-> "ns:p2", dryRun |-> FALSE, params |-> "none"],
      [key |-> "ns:p2", dryRun |-> FALSE, params |-> "x"],
      [key |-> "ns:zz", dryRun |-> FALSE, params |-> "none"],
      [key |-> "ns:zz", dryRun |-> TRUE,  params |-> "none"] }

\* ------------------------------------------------------------ error texts
\* An error text is a sequence of strings; string concatenation is \o.
\* errorMessage(err) of what the handler of step def threw
HandlerError(def) == << "handler failed", def.id >>
DryRunError == << "simulated dry run failure" >>
ResolveError(def) == << "Missing required parameter: ", "x" >>
UnexpectedError(msg) == << "Unexpected error: " >> \o msg
Interrupted == << "Interrupted" >>
ServerShutdown == << "Server shutdown" >>
ServerCrashed(status) == << "Server crashed while ", status >>
\* [...callStack, key].join(" -> ")
JoinArrow(chain) ==
    [n \in 1 .. (2 * Len(chain) - 1) |->
        IF n % 2 = 1 THEN chain[(n + 1) \div 2] ELSE " -> "]
CircularError(chain) ==
    << "Circular pipeline dependency detected: " >> \o JoinArrow(chain)
AlreadyRunning(key, runId) ==
    << "Pipeline ", key, " is already running (run: ", ToString(runId), ")" >>
NotFound(key) == << "Pipeline not found: ", key >>
ChildFailed == << "child pipeline failed" >>
ChildCancelled == << "child pipeline was cancelled" >>
Cancelled == << "Cancelled" >>

TERMINAL_STATUSES == {"success", "failed", "cancelled"}
StepTerminal == {"success", "failed", "skipped"}

VARIABLES
    activePipelines,   \* key -> run ID holding the slot (NoRun: no entry)
    abort,             \* run -> abort.signal.aborted of the run's controller
    timeoutTimer,      \* run -> the safety timer is armed
    task,              \* run -> the in-memory position of the run's async code
    dbRuns,            \* run -> row of pipeline_runs (status "none": no row)
    dbSteps,           \* run -> rows of pipeline_steps, in rowid order
    published,         \* topic -> the messages passed to publish, in order
    storedAtPublish,   \* topic -> for each of these messages, the persisted
                       \* status its run or step had when it was delivered
    nextRunId,         \* the next run ID (IDs are time-ordered)
    shuttingDown,      \* the flag of shutdown() in startServer
    response,          \* what the step just taken reported to its caller: a
                       \* PipelineError of executePipeline, or cancel's answer
    thrown,            \* run -> where the run's handler threw (history)
    topicListeners,    \* topic -> the listeners in the topic's Set
    subscriber,        \* listener id -> what the listener was given (history)
    poll,              \* a call of pollUntil or sleep: position, clock, signal
    resolution,        \* a call of resolveConfig: its input and what it gave
    listenerSets       \* the bus with the identity of each Set of listeners

vars == << activePipelines, abort, timeoutTimer, task, dbRuns, dbSteps,
           published, storedAtPublish,
           nextRunId, shuttingDown, response, thrown,
           topicListeners, subscriber, poll, resolution, listenerSets >>

\* the event bus, and what is outside the executor
busVars == << topicListeners, subscriber >>
otherVars == << topicListeners, subscriber, poll, resolution, listenerSets >>

\* the handler of a trigger-pipeline step: where it is, the run it started,
\* whether waitForRun's onAbort is registered, what its promise settled with
\* and which call of resolve settled it
NoWait == [pc |-> "none", child |-> NoRun, onAbort |-> FALSE, status |-> "",
           error |-> Null, via |-> ""]
NoTask == [pc |-> "none", key |-> "", dryRun |-> FALSE, params |-> "none",
           i |-> 0, result |-> [kind |-> "none", msg |-> Null],
           parent |-> NoRun, callStack |-> << >>, wait |-> NoWait]
NoRow == [status |-> "none", error |-> Null, key |-> "", dry_run |-> FALSE]
NoThrow == [step |-> 0, aborted |-> FALSE]
\* nothing was reported to a caller
NoResponse == [statusCode |-> 0, key |-> "", runId |-> NoRun]

\* ------------------------------------------------------------- event bus
MAX_LISTENERS_PER_TOPIC == 100
MaxNewListeners == 2         \* subscribe calls made on top of the initial ones

ListenerIds == 1 .. (MAX_LISTENERS_PER_TOPIC + MaxNewListeners)

\* a listener that records what it is called with
Recorder(id) == [kind |-> "recorder", id |-> id]
\* the listener waitForRun subscribes for the trigger-pipeline step of run
Waiter(run) == [kind |-> "waiter", id |-> run]

\* a listener id that has not been passed to subscribe
NoSubscriber == [topic |-> -1, from |-> 0, until |-> -1, unsub |-> "none",
                 called |-> FALSE, msgs |-> << >>]

\* nothing is polling or sleeping
NoPoll == [pc |-> "idle", mode |-> "none", now |-> 0, deadline |-> 0,
           timeoutMessage |-> "", aborted |-> FALSE, abortedAt |-> -1,
           abortedIn |-> "", startedAt |-> -1, wake |-> -1, endedAt |-> -1,
           checks |-> << >>, calls |-> 0,
           outcome |-> [kind |-> "none", value |-> ""]]

\* -------------------------------------------------------- the store (db)
\* The operators below work on a record s of the values an action is
\* building: s.runs, s.steps, s.pub, s.ap (activePipelines), s.tm (timers),
\* s.task.

createRun(s, id, key, dry) ==
    [s EXCEPT !.runs[id] = [status |-> "pending", error |-> Null,
                            key |-> key, dry_run |-> dry]]

\* UPDATE pipeline_runs SET status = ?, error = COALESCE(?, error) WHERE id = ?
\* (no row with that id: nothing is updated)
updateRunStatus(s, id, status, error) ==
    [s EXCEPT !.runs[id] =
        IF @.status = "none" THEN @
        ELSE [@ EXCEPT !.status = status,
                       !.error = IF error # Null THEN error ELSE @]]

createStep(s, run, def) ==
    [s EXCEPT !.steps[run] = Append(@, [step_id |-> def.id, status |-> "pending",
                                        error |-> Null, output |-> FALSE])]

\* updateStepStatus that does not write the error column
updateStepStatus_DropsError(s, run, k, status, output, error) ==
    [s EXCEPT !.steps[run][k].status = status,
              !.steps[run][k].output = IF output THEN TRUE ELSE @]

\* UPDATE pipeline_steps SET status = ?, output = COALESCE(?, output),
\*   error = COALESCE(?, error) WHERE id = ?
updateStepStatus(s, run, k, status, output, error) ==
    [s EXCEPT !.steps[run][k].status = status,
              !.steps[run][k].output = IF output THEN TRUE ELSE @,
              !.steps[run][k].error = IF error # Null THEN error ELSE @]

\* UPDATE pipeline_steps SET status = CASE WHEN status = 'running' THEN 'failed'
\*   ELSE 'skipped' END, error = CASE WHEN status = 'running' THEN 'Interrupted'
\*   ELSE error END WHERE run_id = ? AND status IN ('running', 'pending')
\* the UPDATE of markStaleSteps restricted to status = 'running'
StaleRow_RunningOnly(row) ==
    IF row.status = "running"
    THEN [row EXCEPT !.status = "failed", !.error = Interrupted]
    ELSE row

StaleRow(row) ==
    IF row.status = "running"
    THEN [row EXCEPT !.status = "failed", !.error = Interrupted]
    ELSE IF row.status = "pending"
         THEN [row EXCEPT !.status = "skipped"]
         ELSE row

markStaleSteps(s, run) ==
    [s EXCEPT !.steps[run] = [k \in DOMAIN @ |-> StaleRow(@[k])]]

\* what the store holds, when a message is delivered, as the status of the
\* run or step the message is about ("" for a message without a status)
Persisted(s, message) ==
    IF message.type \notin {"run:status", "step:status"}
    THEN ""
    ELSE IF message.runId \notin DOMAIN s.runs
    THEN "none"
    ELSE IF message.type = "run:status"
    THEN s.runs[message.runId].status
    ELSE LET rows == {k \in DOMAIN s.steps[message.runId] :
                         s.steps[message.runId][k].step_id = message.stepId}
         IN  IF rows = {} THEN "none"
             ELSE s.steps[message.runId][CHOOSE k \in rows : TRUE].status

\* the callback of a recording listener
RecorderCalled(got, message) == [got EXCEPT !.msgs = Append(@, message)]

\* for (const fn of listeners) fn(message); s.pub keeps the calls of publish
publish_ToEveryTopic(s, topic, message) ==
    [s EXCEPT !.pub[topic] = Append(@, message),
              !.seen[topic] = Append(@, Persisted(s, message)),
              !.got = [id \in DOMAIN @ |->
                          IF \E tp \in Topics : Recorder(id) \in s.lst[tp]
                          THEN RecorderCalled(@[id], message)
                          ELSE @[id]]]

\* the listeners of waitForRun that message makes resolve: the callback
\* calls cleanup() and resolve(status) on a terminal run:status
WokenBy(topic, message) ==
    IF message.type = "run:status" /\ message.status \in TERMINAL_STATUSES
    THEN {r \in Runs : Waiter(r) \in topicListeners[topic]}
    ELSE {}

\* no step publishes on a topic after it has changed the topic's listeners,
\* so the waiters called are those subscribed when the step begins
publish(s, topic, message) ==
    LET called(t) ==
            IF WokenBy(topic, message) = {}
            THEN [t EXCEPT !.pub[topic] = Append(@, message),
                           !.seen[topic] = Append(@, Persisted(t, message)),
                           !.got = [id \in DOMAIN @ |->
                                       IF Recorder(id) \in t.lst[topic]
                                       THEN RecorderCalled(@[id], message)
                                       ELSE @[id]]]
            ELSE [t EXCEPT !.pub[topic] = Append(@, message),
                           !.seen[topic] = Append(@, Persisted(t, message)),
                           !.lst[topic] = @ \ {Waiter(r) : r \in Runs},
                           !.task = [r \in Runs |->
                                        IF r \in WokenBy(topic, message)
                                        THEN [@[r] EXCEPT !.wait.pc = "resolved",
                                                          !.wait.onAbort = FALSE,
                                                          !.wait.via = "listener",
                                                          !.wait.status = message.status]
                                        ELSE @[r]]]
    IN  CHOOSE after \in {called(t) : t \in {s}} : TRUE    \* t is the value of s

\* subscribe(topic, listener) by listener id: nothing is added to a full Set
\* and the closure returned is then a no-op
subscribe_NoLimit(s, topic, id) ==
    [s EXCEPT !.lst[topic] = @ \cup {Recorder(id)},
              !.got[id] = [NoSubscriber EXCEPT !.topic = topic,
                                               !.from = Len(s.pub[topic]),
                                               !.unsub = "real"]]

subscribe(s, topic, id) ==
    IF Cardinality(s.lst[topic]) >= MAX_LISTENERS_PER_TOPIC
    THEN [s EXCEPT !.got[id] = [NoSubscriber EXCEPT !.topic = topic,
                                                    !.from = Len(s.pub[topic]),
                                                    !.until = Len(s.pub[topic]),
                                                    !.unsub = "noop"]]
    ELSE [s EXCEPT !.lst[topic] = @ \cup {Recorder(id)},
                   !.got[id] = [NoSubscriber EXCEPT !.topic = topic,
                                                    !.from = Len(s.pub[topic]),
                                                    !.unsub = "real"]]

\* the closure returned by subscribe, called
unsubscribe(s, id) ==
    IF s.got[id].unsub = "real" /\ Recorder(id) \in s.lst[s.got[id].topic]
    THEN [s EXCEPT !.lst[s.got[id].topic] = @ \ {Recorder(id)},
                   !.got[id].until = Len(s.pub[s.got[id].topic]),
                   !.got[id].called = TRUE]
    ELSE [s EXCEPT !.got[id].called = TRUE]

Msg(type, run, stepId, status) ==
    [type |-> type, runId |-> run, stepId |-> stepId, status |-> status]

\* ------------------------------------------------------------- executor
\* The key, dryRun and params of a run are fixed when it is triggered; the
\* operators read them from task[run].

\* a publishStepStatus that publishes nothing
publishStepStatus_Silent(s, run, def, status) == s

publishStepStatus(s, run, def, status) ==
    publish(s, run, Msg("step:status", run, def.id, status))

\* a finishRun that persists the status and publishes nothing
finishRun_Silent(s, run, status, error) ==
    updateRunStatus(s, run, status, error)

\* a finishRun that publishes the status before it persists it
finishRun_PublishesFirst(s, run, status, error) ==
    updateRunStatus(publish(s, run, Msg("run:status", run, "", status)),
                    run, status, error)

finishRun(s, run, status, error) ==
    publish(updateRunStatus(s, run, status, error), run,
            Msg("run:status", run, "", status))

\* for (const remaining of stepRecords.slice(fromIndex)): update, then publish
RECURSIVE skipRemainingSteps(_, _, _)
skipRemainingSteps(s, run, from) ==
    IF from > Len(Pipeline(task[run].key)) THEN s
    ELSE skipRemainingSteps(
             publishStepStatus(
                 updateStepStatus(s, run, from, "skipped", FALSE, Null),
                 run, Pipeline(task[run].key)[from], "skipped"),
             run, from + 1)

\* resolveConfig(def.config, {params, vars}) throws iff the config refers to a
\* parameter the run was not given
resolveThrows(def, params) == def.config = "{{param.x}}" /\ params # "x"

getAction(name) == name \in Registry

Result(kind, msg) == [kind |-> kind, msg |-> msg]

\* a finally block that clears the timer but keeps the slot
runStepsFinally_KeepsSlot(s, run) ==
    [s EXCEPT !.tm[run] = FALSE,
              !.task[run] = [@ EXCEPT !.pc = "done", !.i = 0,
                                      !.result = Result("none", Null)]]

\* a finally block that deletes the slot of the key for a dry run too
runStepsFinally_IgnoresDryRun(s, run) ==
    [s EXCEPT !.tm[run] = FALSE,
              !.ap = [@ EXCEPT ![task[run].key] = NoRun],
              !.task[run] = [@ EXCEPT !.pc = "done", !.i = 0,
                                      !.result = Result("none", Null)]]

\* a finally block without clearTimeout
runStepsFinally_KeepsTimer(s, run) ==
    [s EXCEPT !.ap = IF task[run].dryRun THEN @
                     ELSE [@ EXCEPT ![task[run].key] = NoRun],
              !.task[run] = [@ EXCEPT !.pc = "done", !.i = 0,
                                      !.result = Result("none", Null)]]

\* the finally block of runSteps
runStepsFinally(s, run) ==
    [s EXCEPT !.tm[run] = FALSE,
              !.ap = IF task[run].dryRun THEN @
                     ELSE [@ EXCEPT ![task[run].key] = NoRun],
              !.task[run] = [@ EXCEPT !.pc = "done", !.i = 0,
                                      !.result = Result("none", Null)]]

\* executeStep that fails a step whose action is not registered
executeStepBegin_FailsUnregistered(s, run, k) ==
    LET def == Pipeline(task[run].key)[k]
    IN  IF resolveThrows(def, task[run].params)
        THEN [s EXCEPT !.task[run] =
                 [@ EXCEPT !.pc = "await", !.i = k,
                           !.result = Result("threw", ResolveError(def))]]
        ELSE IF ~getAction(def.action)
             THEN [publishStepStatus(
                      updateStepStatus(
                          publishStepStatus(
                              updateStepStatus(s, run, k, "running", FALSE, Null),
                              run, def, "running"),
                          run, k, "failed", FALSE, << "not registered" >>),
                      run, def, "failed")
                   EXCEPT !.task[run] =
                       [@ EXCEPT !.pc = "await", !.i = k,
                                 !.result = Result("failed", << "not registered" >>)]]
             ELSE [publishStepStatus(
                      updateStepStatus(s, run, k, "running", FALSE, Null),
                      run, def, "running")
                   EXCEPT !.task[run] = [@ EXCEPT !.pc = "handler", !.i = k]]

\* `await action.handler(resolvedConfig, ctx)` up to the handler's first
\* await.  The trigger-pipeline handler throws when the key is on the call
\* stack; otherwise it calls executePipeline for the key, which throws the 409
\* or takes a run ID, reserves the slot, listens to the signal of run and
\* awaits loadAllConfigs.
handlerStart_NoCycleCheck(s, run, def) ==
    IF def.action # TRIGGER \/ task[run].dryRun THEN s
    ELSE IF activePipelines[def.config] # NoRun
    THEN [s EXCEPT !.task[run].wait =
             [NoWait EXCEPT !.pc = "rejected",
                            !.error = AlreadyRunning(def.config,
                                          activePipelines[def.config])]]
    ELSE [s EXCEPT !.ap[def.config] = nextRunId,
                   !.next = nextRunId + 1,
                   !.task[nextRunId] =
                       [NoTask EXCEPT !.pc = "loading", !.key = def.config,
                                      !.parent = run,
                                      !.callStack = Append(task[run].callStack,
                                                           def.config)],
                   !.task[run].wait = [NoWait EXCEPT !.pc = "starting",
                                                     !.child = nextRunId]]

handlerStart(s, run, def) ==
    IF def.action # TRIGGER \/ task[run].dryRun THEN s
    ELSE IF \E n \in DOMAIN task[run].callStack :
                task[run].callStack[n] = def.config
    THEN [s EXCEPT !.task[run].wait =
             [NoWait EXCEPT !.pc = "rejected",
                            !.error = CircularError(
                                Append(task[run].callStack, def.config))]]
    ELSE IF activePipelines[def.config] # NoRun
    THEN [s EXCEPT !.task[run].wait =
             [NoWait EXCEPT !.pc = "rejected",
                            !.error = AlreadyRunning(def.config,
                                          activePipelines[def.config])]]
    ELSE [s EXCEPT !.ap[def.config] = nextRunId,
                   !.next = nextRunId + 1,
                   !.task[nextRunId] =
                       [NoTask EXCEPT !.pc = "loading", !.key = def.config,
                                      !.parent = run,
                                      !.callStack = Append(task[run].callStack,
                                                           def.config)],
                   !.task[run].wait = [NoWait EXCEPT !.pc = "starting",
                                                     !.child = nextRunId]]

\* executeStep from its first line to its first await (or to its return when
\* it does not await): step k of run, abort not set
executeStepBegin(s, run, k) ==
    LET def == Pipeline(task[run].key)[k]
    IN  IF resolveThrows(def, task[run].params)
        THEN [s EXCEPT !.task[run] =
                 [@ EXCEPT !.pc = "await", !.i = k,
                           !.result = Result("threw", ResolveError(def))]]
        ELSE IF ~getAction(def.action)
             THEN [publishStepStatus(
                      updateStepStatus(
                          publishStepStatus(
                              updateStepStatus(s, run, k, "running", FALSE, Null),
                              run, def, "running"),
                          run, k, "skipped", FALSE, Null),
                      run, def, "skipped")
                   EXCEPT !.task[run] =
                       [@ EXCEPT !.pc = "await", !.i = k,
                                 !.result = Result("success", Null)]]
             ELSE handlerStart(
                      [publishStepStatus(
                          updateStepStatus(s, run, k, "running", FALSE, Null),
                          run, def, "running")
                       EXCEPT !.task[run] = [@ EXCEPT !.pc = "handler", !.i = k]],
                      run, def)

\* a loop that finishes success after the last step without looking at abort
runStepsLoop_SuccessWhenAborted(s, run, k, aborted) ==
    IF k > Len(Pipeline(task[run].key))
    THEN runStepsFinally(finishRun(s, run, "success", Null), run)
    ELSE IF aborted
         THEN runStepsFinally(
                  finishRun(skipRemainingSteps(s, run, k), run, "cancelled", Null),
                  run)
         ELSE executeStepBegin(s, run, k)

\* a loop that does not look at abort at the top of an iteration
runStepsLoop_NoAbortCheck(s, run, k, aborted) ==
    IF k > Len(Pipeline(task[run].key))
    THEN runStepsFinally(
             finishRun(s, run, IF aborted THEN "cancelled" ELSE "success", Null),
             run)
    ELSE executeStepBegin(s, run, k)

\* the for loop of runSteps from the top of iteration k up to the next await
\* or to the end of runSteps; aborted is abort.signal.aborted
runStepsLoop(s, run, k, aborted) ==
    IF k > Len(Pipeline(task[run].key))
    THEN runStepsFinally(
             finishRun(s, run, IF aborted THEN "cancelled" ELSE "success", Null),
             run)
    ELSE IF aborted
         THEN runStepsFinally(
                  finishRun(skipRemainingSteps(s, run, k), run, "cancelled", Null),
                  run)
         ELSE executeStepBegin(s, run, k)

\* runSteps that goes on to the next step without looking at the signal
runStepsResume_IgnoresAbort(s, run, aborted) ==
    LET k == task[run].i
        res == task[run].result
    IN  CASE res.kind = "cancelled" ->
               runStepsFinally(
                   finishRun(skipRemainingSteps(s, run, k + 1), run, "cancelled", Null),
                   run)
          [] res.kind = "failed" ->
               runStepsFinally(
                   finishRun(skipRemainingSteps(s, run, k + 1), run, "failed", res.msg),
                   run)
          [] res.kind = "threw" ->
               runStepsFinally(
                   markStaleSteps(
                       finishRun(s, run, "failed", UnexpectedError(res.msg)), run),
                   run)
          [] OTHER -> runStepsLoop(s, run, k + 1, FALSE)

\* runSteps after `await executeStep(...)` has settled with task.result
runStepsResume(s, run, aborted) ==
    LET k == task[run].i
        res == task[run].result
    IN  CASE res.kind = "cancelled" ->
               runStepsFinally(
                   finishRun(skipRemainingSteps(s, run, k + 1), run, "cancelled", Null),
                   run)
          [] res.kind = "failed" ->
               runStepsFinally(
                   finishRun(skipRemainingSteps(s, run, k + 1), run, "failed", res.msg),
                   run)
          [] res.kind = "threw" ->
               runStepsFinally(
                   markStaleSteps(
                       finishRun(s, run, "failed", UnexpectedError(res.msg)), run),
                   run)
          [] OTHER -> runStepsLoop(s, run, k + 1, aborted)

\* a catch block of executeStep without the abort.signal.aborted branch
executeStepEnd_IgnoresAbort(s, run, ok, aborted) ==
    LET k == task[run].i
        def == Pipeline(task[run].key)[k]
        msg == IF task[run].dryRun THEN DryRunError ELSE HandlerError(def)
    IN  IF ok
        THEN [publishStepStatus(
                 updateStepStatus(s, run, k, "success", ~task[run].dryRun, Null),
                 run, def, "success")
              EXCEPT !.task[run].pc = "await",
                     !.task[run].result = Result("success", Null)]
        ELSE [publishStepStatus(
                 updateStepStatus(s, run, k, "failed", FALSE, msg),
                 run, def, "failed")
              EXCEPT !.task[run].pc = "await",
                     !.task[run].result = Result("failed", msg)]

\* what the trigger-pipeline handler of run throws: what rejected its await,
\* or the child's error (or a fixed text) for a child that failed, or a fixed
\* text for a child that was cancelled
TriggerError(run) ==
    IF task[run].wait.pc = "rejected" THEN task[run].wait.error
    ELSE IF task[run].wait.status = "failed"
    THEN IF dbRuns[task[run].wait.child].error = Null THEN ChildFailed
         ELSE dbRuns[task[run].wait.child].error
    ELSE ChildCancelled

\* executeStep after the handler (or the dry-run sleep) has settled
executeStepEnd(s, run, ok, aborted) ==
    LET k == task[run].i
        def == Pipeline(task[run].key)[k]
        msg == IF task[run].dryRun THEN DryRunError
               ELSE IF def.action = TRIGGER THEN TriggerError(run)
               ELSE HandlerError(def)
    IN  IF ok
        THEN [publishStepStatus(
                 updateStepStatus(s, run, k, "success", ~task[run].dryRun, Null),
                 run, def, "success")
              EXCEPT !.task[run].pc = "await",
                     !.task[run].result = Result("success", Null)]
        ELSE IF aborted
             THEN [publishStepStatus(
                      updateStepStatus(s, run, k, "skipped", FALSE, Null),
                      run, def, "skipped")
                   EXCEPT !.task[run].pc = "await",
                          !.task[run].result = Result("cancelled", Null)]
             ELSE [publishStepStatus(
                      updateStepStatus(s, run, k, "failed", FALSE, msg),
                      run, def, "failed")
                   EXCEPT !.task[run].pc = "await",
                          !.task[run].result = Result("failed", msg)]

\* pipeline.steps.map(step => db.createStep(...))
RECURSIVE createSteps(_, _, _)
createSteps(s, run, k) ==
    IF k = 0 THEN s
    ELSE createStep(createSteps(s, run, k - 1), run, Pipeline(task[run].key)[k])

\* executePipeline that leaves the new run row at its initial status
executePipelineResume_StaysPending(s, run, aborted) ==
    runStepsLoop(
        [publish(
            publish(
                createSteps(
                    createRun(s, run, task[run].key, task[run].dryRun),
                    run, Len(Pipeline(task[run].key))),
                GLOBAL, Msg("run:started", run, "", "")),
            run, Msg("run:status", run, "", "running"))
         EXCEPT !.tm[run] = TRUE],
        run, 1, aborted)

\* `return runId` to the trigger-pipeline handler that called executePipeline
runIdReturned(s, run) ==
    IF task[run].parent = NoRun THEN s
    ELSE [s EXCEPT !.task[task[run].parent].wait.pc = "started"]

\* the PipelineError of executePipeline rejects the handler's await
childThrew(tasks, run, msg) ==
    IF tasks[run].parent = NoRun THEN tasks
    ELSE [tasks EXCEPT ![tasks[run].parent].wait =
             [@ EXCEPT !.pc = "rejected", !.error = msg]]

\* executePipeline after `await loadAllConfigs()`, pipeline found
executePipelineResume(s, run, aborted) ==
    runIdReturned(
        runStepsLoop(
            [publish(
                updateRunStatus(
                    publish(
                        createSteps(
                            createRun(s, run, task[run].key, task[run].dryRun),
                            run, Len(Pipeline(task[run].key))),
                        GLOBAL, Msg("run:started", run, "", "")),
                    run, "running", Null),
                run, Msg("run:status", run, "", "running"))
             EXCEPT !.tm[run] = TRUE],
            run, 1, aborted),
        run)

State ==
    [runs |-> dbRuns, steps |-> dbSteps, pub |-> published,
     ap |-> activePipelines, tm |-> timeoutTimer, task |-> task,
     lst |-> topicListeners, got |-> subscriber, next |-> nextRunId,
     seen |-> storedAtPublish]

Commit(s) ==
    \E t \in {s} :
        /\ dbRuns' = t.runs
        /\ dbSteps' = t.steps
        /\ published' = t.pub
        /\ storedAtPublish' = t.seen
        /\ activePipelines' = t.ap
        /\ timeoutTimer' = t.tm
        /\ task' = t.task
        /\ topicListeners' = t.lst
        /\ subscriber' = t.got
        /\ nextRunId' = t.next

\* ------------------------------------------- the bus, Set by Set
\* events.ts with the identity of each Set: a closure returned by subscribe
\* keeps the Set it was given, whether or not the Map still holds that Set.
MaxSetListeners == 3         \* the listeners that subscribe
MaxCalls == 2                \* the calls of one unsubscribe function
SetListeners == 1 .. MaxSetListeners
NoSet == 0
NoTopic == -1

\* globalListeners; a Set made by subscribe is named after the listener for
\* which it was made
GlobalSet == MaxSetListeners + 1

NoClosure == [topic |-> NoTopic, set |-> NoSet, real |-> FALSE, calls |-> 0]

\* map: topicListeners (topic -> its Set, NoSet: no entry); members: the
\* listeners in each Set; closure: what subscribe returned for a listener and
\* how often it was called; got: the messages a listener was called with;
\* owed: the messages published on its topic since it subscribed and before
\* its own closure was first called (history); published: calls of publish
NoListenerSets ==
    [map |-> [tp \in Topics \ {GLOBAL} |-> NoSet],
     members |-> [st \in 1 .. GlobalSet |-> {}],
     closure |-> [id \in SetListeners |-> NoClosure],
     got |-> [id \in SetListeners |-> 0],
     owed |-> [id \in SetListeners |-> 0],
     published |-> 0]

\* the Set that publish and subscribe find for a topic
SetOf(b, topic) == IF topic = GLOBAL THEN GlobalSet ELSE b.map[topic]

\* subscribe(topic, listener), listener being the function id
subscribeSet(b, topic, id) ==
    LET set == IF SetOf(b, topic) # NoSet THEN SetOf(b, topic) ELSE id
        map == IF topic = GLOBAL THEN b.map
               ELSE [b.map EXCEPT ![topic] = set]
    IN  IF Cardinality(b.members[set]) >= MAX_LISTENERS_PER_TOPIC
        THEN [b EXCEPT !.map = map,
                       !.closure[id] = [NoClosure EXCEPT !.topic = topic]]
        ELSE [b EXCEPT !.map = map,
                       !.members[set] = @ \cup {id},
                       !.closure[id] = [topic |-> topic, set |-> set,
                                        real |-> TRUE, calls |-> 0]]

\* the closure subscribe returned for listener id is called
unsubscribeSet(b, id) ==
    LET set == b.closure[id].set
        topic == b.closure[id].topic
    IN  IF ~b.closure[id].real
        THEN [b EXCEPT !.closure[id].calls = @ + 1]
        ELSE [b EXCEPT !.members[set] = @ \ {id},
                       !.map = IF topic # GLOBAL /\ b.members[set] \ {id} = {}
                               THEN [@ EXCEPT ![topic] = NoSet]
                               ELSE @,
                       !.closure[id].calls = @ + 1]

\* publish(topic, message)
publishSet(b, topic) ==
    LET listeners == IF SetOf(b, topic) = NoSet THEN {}
                     ELSE b.members[SetOf(b, topic)]
    IN  [b EXCEPT !.got = [id \in SetListeners |->
                              IF id \in listeners THEN @[id] + 1 ELSE @[id]],
                  !.owed = [id \in SetListeners |->
                               IF /\ b.closure[id].real
                                  /\ b.closure[id].topic = topic
                                  /\ b.closure[id].calls = 0
                               THEN @[id] + 1
                               ELSE @[id]],
                  !.published = @ + 1]

\* ------------------------------------------------- template resolution
\* config/template.ts.  A string is the sequence of its characters; a word
\* the code never looks inside ("constructor", "$switch") is one element.
LB == << "{", "{" >>
RB == << "}", "}" >>
VARS_DOT == << "v", "a", "r", "s", "." >>
PARAM_DOT == << "p", "a", "r", "a", "m", "." >>
PIPE == << "|" >>
SWITCH == << "$switch" >>
CASES == << "cases" >>
DEFAULT == << "default" >>
MAX_RESOLVE_DEPTH == 50

\* JavaScript values.  id is the identity of an array or object: values of
\* the context have an id of their own, NewId is one made by the call.
NewId == 0
JsUndefined == [type |-> "undefined"]
JsNull == [type |-> "null"]
JsString(chars) == [type |-> "string", chars |-> chars]
JsBoolean(b) == [type |-> "boolean", b |-> b]
JsNumber(n) == [type |-> "number", n |-> n]
JsFunction == [type |-> "function"]
JsArray(id, items) == [type |-> "array", id |-> id, items |-> items]
JsObject(id, props) == [type |-> "object", id |-> id, props |-> props]
Prop(key, value) == [key |-> key, value |-> value]
Throw(error, detail) == [type |-> "throw", error |-> error, detail |-> detail]

\* value === null || value === undefined
Nullish(value) == value.type \in {"null", "undefined"}

\* the keys every plain object inherits from Object.prototype (one of them)
ObjectPrototype == { << "constructor" >> }

Own(obj, key) == {i \in 1 .. Len(obj.props) : obj.props[i].key = key}

\* obj[key]: the own property, else the inherited one, else undefined
Get(obj, key) ==
    IF Own(obj, key) # {}
    THEN obj.props[CHOOSE i \in Own(obj, key) : TRUE].value
    ELSE IF key \in ObjectPrototype THEN JsFunction ELSE JsUndefined

\* key in obj
In(key, obj) == Own(obj, key) # {} \/ key \in ObjectPrototype

\* String(value) of a value that is not an array or object
String(value) ==
    CASE value.type = "string" -> value.chars
      [] value.type = "boolean" ->
            IF value.b THEN << "t", "r", "u", "e" >>
            ELSE << "f", "a", "l", "s", "e" >>
      [] value.type = "number" -> << ToString(value.n) >>
      [] value.type = "null" -> << "n", "u", "l", "l" >>
      [] value.type = "undefined" -> << "undefined" >>
      [] value.type = "function" -> << "function Object() { [native code] }" >>

startsWith(s, prefix) ==
    Len(s) >= Len(prefix) /\ SubSeq(s, 1, Len(prefix)) = prefix

endsWith(s, suffix) ==
    Len(s) >= Len(suffix)
    /\ SubSeq(s, Len(s) - Len(suffix) + 1, Len(s)) = suffix

\* s.indexOf(sub) searched from position from; positions start at 1 and 0
\* stands for "not found"
indexOf(s, sub, from) ==
    LET hits == {i \in from .. (Len(s) - Len(sub) + 1) :
                    SubSeq(s, i, i + Len(sub) - 1) = sub}
    IN  IF hits = {} THEN 0 ELSE CHOOSE i \in hits : \A j \in hits : i <= j

RECURSIVE trimStart(_)
trimStart(s) == IF s # << >> /\ Head(s) = " " THEN trimStart(Tail(s)) ELSE s

RECURSIVE trimEnd(_)
trimEnd(s) ==
    IF s # << >> /\ s[Len(s)] = " "
    THEN trimEnd(SubSeq(s, 1, Len(s) - 1))
    ELSE s

trim(s) == trimEnd(trimStart(s))

\* /^\{\{(.+?)\}\}$/: the lazy group grows until }} is followed by the end
\* of the string, so it is everything between the first {{ and the last }}
FULL_TEMPLATE_RE(value) ==
    IF startsWith(value, LB) /\ endsWith(value, RB)
       /\ Len(value) >= Len(LB) + 1 + Len(RB)
    THEN [found |-> TRUE, group |-> SubSeq(value, 3, Len(value) - 2)]
    ELSE [found |-> FALSE]

\* /\{\{(.+?)\}\}/g, the next match at or after position from: the first {{
\* that has a }} at least one character further on, up to the nearest one
TEMPLATE_RE(value, from) ==
    LET open == indexOf(value, LB, from)
        close == indexOf(value, RB, open + Len(LB) + 1)
    IN  IF open = 0 \/ close = 0
        THEN [found |-> FALSE]
        ELSE [found |-> TRUE, start |-> open, end |-> close + 1,
              group |-> SubSeq(value, open + 2, close - 1)]

parseTemplateRef(expr) ==
    LET trimmed == trim(expr)
        rest == SubSeq(trimmed, Len(PARAM_DOT) + 1, Len(trimmed))
        pipeIdx == indexOf(rest, PIPE, 1)
    IN  IF startsWith(trimmed, VARS_DOT)
        THEN [type |-> "vars",
              name |-> SubSeq(trimmed, Len(VARS_DOT) + 1, Len(trimmed)),
              fallback |-> JsUndefined]
        ELSE IF startsWith(trimmed, PARAM_DOT)
        THEN IF pipeIdx # 0
             THEN [type |-> "param",
                   name |-> trim(SubSeq(rest, 1, pipeIdx - 1)),
                   fallback |->
                       JsString(trim(SubSeq(rest, pipeIdx + 1, Len(rest))))]
             ELSE [type |-> "param", name |-> rest, fallback |-> JsUndefined]
        ELSE [type |-> "null"]

resolveExpression(expr, ctx) ==
    LET ref == parseTemplateRef(expr)
        val == Get(ctx.params, ref.name)
    IN  IF ref.type = "null"
        THEN Throw("Invalid template expression: ", trim(expr))
        ELSE IF ref.type = "vars"
        THEN IF ~In(ref.name, ctx.vars)
             THEN Throw("Undefined variable: vars.", ref.name)
             ELSE Get(ctx.vars, ref.name)
        ELSE IF ref.fallback # JsUndefined
        THEN IF val = JsUndefined \/ val = JsString(<< >>)
             THEN ref.fallback
             ELSE val
        ELSE IF val = JsUndefined
        THEN Throw("Missing required parameter: ", ref.name)
        ELSE val

\* value.replace(TEMPLATE_RE, callback) from position from on: the callback
\* runs match by match, and the first one that throws ends the call
RECURSIVE replace(_, _, _)
replace(value, from, ctx) ==
    LET m == TEMPLATE_RE(value, from)
        resolved == resolveExpression(m.group, ctx)
        rest == replace(value, m.end + 1, ctx)
    IN  IF ~m.found
        THEN JsString(SubSeq(value, from, Len(value)))
        ELSE IF resolved.type = "throw"
        THEN resolved
        ELSE IF Nullish(resolved)
        THEN Throw("resolved to null or undefined in a string", trim(m.group))
        ELSE IF resolved.type \in {"array", "object"}
        THEN Throw("resolved to an array or an object in a string",
                   trim(m.group))
        ELSE IF rest.type = "throw"
        THEN rest
        ELSE JsString(SubSeq(value, from, m.start - 1)
                          \o String(resolved) \o rest.chars)

\* every string that holds {{ goes through replace, a full template too
resolveString_AlwaysInterpolates(value, ctx) ==
    IF indexOf(value, LB, 1) # 0
    THEN replace(value, 1, ctx)
    ELSE JsString(value)

\* resolveConfig, typeof value === "string"
resolveString(value, ctx) ==
    IF FULL_TEMPLATE_RE(value).found
    THEN resolveExpression(FULL_TEMPLATE_RE(value).group, ctx)
    ELSE IF indexOf(value, LB, 1) # 0
    THEN replace(value, 1, ctx)
    ELSE JsString(value)

\* cases[paramValue] ?? obj.default of resolveConfig, "$switch" in obj
selected(obj, ctx) ==
    LET param == Get(ctx.params, Get(obj, SWITCH).chars)
        paramValue == String(IF Nullish(param) THEN JsString(<< >>)
                             ELSE param)
        cases == IF Nullish(Get(obj, CASES)) THEN JsObject(NewId, << >>)
                 ELSE Get(obj, CASES)
    IN  [paramValue |-> paramValue,
         value |-> IF Nullish(Get(cases, paramValue)) THEN Get(obj, DEFAULT)
                   ELSE Get(cases, paramValue)]

RECURSIVE resolveConfig(_, _, _)

\* value.map(item => resolveConfig(item, ctx, depth + 1))
RECURSIVE map(_, _, _)
map(items, ctx, depth) ==
    LET first == resolveConfig(Head(items), ctx, depth + 1)
        others == map(Tail(items), ctx, depth)
    IN  IF items = << >>
        THEN JsArray(NewId, << >>)
        ELSE IF first.type = "throw"
        THEN first
        ELSE IF others.type = "throw"
        THEN others
        ELSE JsArray(NewId, << first >> \o others.items)

\* for (const [k, v] of Object.entries(obj)) result[k] = resolveConfig(v, ..)
RECURSIVE entries(_, _, _)
entries(props, ctx, depth) ==
    LET first == resolveConfig(Head(props).value, ctx, depth + 1)
        others == entries(Tail(props), ctx, depth)
    IN  IF props = << >>
        THEN JsObject(NewId, << >>)
        ELSE IF first.type = "throw"
        THEN first
        ELSE IF others.type = "throw"
        THEN others
        ELSE JsObject(NewId, << Prop(Head(props).key, first) >>
                                 \o others.props)

resolveSwitch(obj, ctx, depth) ==
    IF selected(obj, ctx).value = JsUndefined
    THEN Throw("$switch: no case and no default", selected(obj, ctx).paramValue)
    ELSE resolveConfig(selected(obj, ctx).value, ctx, depth + 1)

resolveConfig(value, ctx, depth) ==
    IF depth > MAX_RESOLVE_DEPTH
    THEN Throw("Template resolution exceeded maximum depth", << >>)
    ELSE IF Nullish(value)
    THEN value
    ELSE IF value.type = "string"
    THEN resolveString(value.chars, ctx)
    ELSE IF value.type = "array"
    THEN map(value.items, ctx, depth)
    ELSE IF value.type = "object"
    THEN IF In(SWITCH, value)
         THEN resolveSwitch(value, ctx, depth)
         ELSE entries(value.props, ctx, depth)
    ELSE value

NoResolution ==
    [pc |-> "idle", kind |-> "none", parts |-> << >>, value |-> JsUndefined,
     ctx |-> [params |-> JsObject(NewId, << >>),
              vars |-> JsObject(NewId, << >>)],
     result |-> JsUndefined]

\* ----------------------------------------------------------------- Init
Init ==
    /\ activePipelines = [k \in Keys |-> NoRun]
    /\ abort = [r \in Runs |-> FALSE]
    /\ timeoutTimer = [r \in Runs |-> FALSE]
    /\ task = [r \in Runs |-> NoTask]
    /\ dbRuns = [r \in Runs |-> NoRow]
    /\ dbSteps = [r \in Runs |-> << >>]
    /\ published = [tp \in Topics |-> << >>]
    /\ storedAtPublish = [tp \in Topics |-> << >>]
    /\ nextRunId = 1
    /\ shuttingDown = FALSE
    /\ response = NoResponse
    /\ thrown = [r \in Runs |-> NoThrow]
    /\ topicListeners = [tp \in Topics |-> {}]
    /\ subscriber = [id \in {} |-> NoSubscriber]
    /\ poll = NoPoll
    /\ resolution = NoResolution
    /\ listenerSets = NoListenerSets

\* A continuation is queued as a microtask: timers and signal handlers do not
\* run before it.
MicrotaskPending ==
    \E r \in Runs :
        \/ task[r].pc = "await"
        \/ task[r].wait.pc \in {"started", "resolved", "rejected"}

\* abort() of the controllers of roots that are not aborted yet: the listener
\* executePipeline put on the parent's signal aborts each child run in turn
RECURSIVE AbortReach(_, _)
AbortReach(fired, n) ==
    IF n = 0 THEN fired
    ELSE AbortReach(
             fired \cup {c \in Runs : task[c].parent \in fired /\ ~abort[c]},
             n - 1)

Fired(roots) == AbortReach({r \in roots : ~abort[r]}, MaxRunIds)

\* the handlers whose waitForRun has onAbort on a signal that fires
Rejected(roots) ==
    {r \in Fired(roots) : task[r].wait.pc = "waiting" /\ task[r].wait.onAbort}

\* the abort events of roots: the flags, and onAbort of waitForRun, which
\* calls cleanup() and reject(new Error("Cancelled"))
AbortFires(roots) ==
    /\ abort' = [r \in Runs |-> abort[r] \/ r \in Fired(roots)]
    /\ task' = IF Rejected(roots) = {} THEN task
               ELSE [r \in Runs |->
                        IF r \in Rejected(roots)
                        THEN [task[r] EXCEPT !.wait.pc = "rejected",
                                             !.wait.onAbort = FALSE,
                                             !.wait.error = Cancelled]
                        ELSE task[r]]
    /\ topicListeners' =
          IF Rejected(roots) = {} THEN topicListeners
          ELSE [tp \in Topics |->
                   topicListeners[tp] \ {Waiter(r) : r \in Rejected(roots)}]

PipelineError(statusCode, key, runId) ==
    [statusCode |-> statusCode, key |-> key, runId |-> runId]

\* ------------------------------------------------------------- actions
\* executePipeline up to `await loadAllConfigs()`: the 409 check, the new run
\* ID and controller, the slot
TriggerConflict(key) ==
    /\ activePipelines[key] # NoRun
    /\ response' = PipelineError(409, key, activePipelines[key])
    /\ UNCHANGED << activePipelines, abort, timeoutTimer, task, dbRuns, dbSteps,
                    published, storedAtPublish,
                    nextRunId, shuttingDown, thrown >>
    /\ UNCHANGED otherVars

\* executePipeline without the activePipelines.has(key) check
TriggerReserve_NoCheck(key, dryRun, params) ==
    /\ nextRunId <= MaxRuns
    /\ LET runId == nextRunId
       IN  /\ activePipelines' = IF dryRun THEN activePipelines
                                 ELSE [activePipelines EXCEPT ![key] = runId]
           /\ task' = [task EXCEPT ![runId] =
                          [NoTask EXCEPT !.pc = "loading", !.key = key,
                                         !.dryRun = dryRun, !.params = params,
                                         !.callStack = << key >>]]
           /\ nextRunId' = runId + 1
    /\ response' = NoResponse
    /\ UNCHANGED << abort, timeoutTimer, dbRuns, dbSteps,
                    published, storedAtPublish, shuttingDown, thrown >>
    /\ UNCHANGED otherVars

TriggerReserve(key, dryRun, params) ==
    /\ dryRun \/ activePipelines[key] = NoRun
    /\ nextRunId <= MaxRuns
    /\ LET runId == nextRunId
       IN  /\ activePipelines' = IF dryRun THEN activePipelines
                                 ELSE [activePipelines EXCEPT ![key] = runId]
           /\ task' = [task EXCEPT ![runId] =
                          [NoTask EXCEPT !.pc = "loading", !.key = key,
                                         !.dryRun = dryRun, !.params = params,
                                         !.callStack = << key >>]]
           /\ nextRunId' = runId + 1
    /\ response' = NoResponse
    /\ UNCHANGED << abort, timeoutTimer, dbRuns, dbSteps,
                    published, storedAtPublish, shuttingDown, thrown >>
    /\ UNCHANGED otherVars

\* executePipeline whose catch block rethrows without deleting the slot
ExecutePipelineLoaded_KeepsSlot(run) ==
    /\ task[run].pc = "loading"
    /\ IF task[run].key \in Configured
       THEN /\ Commit(executePipelineResume(State, run, abort[run]))
            /\ response' = NoResponse
       ELSE /\ task' = [task EXCEPT ![run].pc = "notfound"]
            /\ response' = PipelineError(404, task[run].key, NoRun)
            /\ UNCHANGED << activePipelines, timeoutTimer, dbRuns, dbSteps,
                            published, storedAtPublish, busVars, nextRunId >>
    /\ UNCHANGED << abort, shuttingDown, thrown >>
    /\ UNCHANGED << poll, resolution, listenerSets >>

\* executePipeline from the return of loadAllConfigs to `return runId`,
\* with the synchronous start of runSteps; or its 404 and catch block
ExecutePipelineLoaded(run) ==
    /\ task[run].pc = "loading"
    /\ IF task[run].key \in Configured
       THEN /\ Commit(executePipelineResume(State, run, abort[run]))
            /\ response' = NoResponse
       ELSE /\ activePipelines' =
                  IF task[run].dryRun THEN activePipelines
                  ELSE [activePipelines EXCEPT ![task[run].key] = NoRun]
            /\ task' = childThrew([task EXCEPT ![run].pc = "notfound"], run,
                                  NotFound(task[run].key))
            /\ response' = PipelineError(404, task[run].key, NoRun)
            /\ UNCHANGED << timeoutTimer, dbRuns, dbSteps, published,
                            storedAtPublish, busVars, nextRunId >>
    /\ UNCHANGED << abort, shuttingDown, thrown >>
    /\ UNCHANGED << poll, resolution, listenerSets >>

\* the handler of the step in flight returns (ok) or throws; for a dry run,
\* the sleep ends and the simulated failure is drawn
HandlerSettles(run, ok) ==
    /\ task[run].pc = "handler"
    /\ task[run].wait.pc = "none"
    /\ Commit(executeStepEnd(State, run, ok, abort[run]))
    /\ thrown' = IF ok THEN thrown
                 ELSE [thrown EXCEPT ![run] = [step |-> task[run].i,
                                               aborted |-> abort[run]]]
    /\ response' = NoResponse
    /\ UNCHANGED << abort, shuttingDown >>
    /\ UNCHANGED << poll, resolution, listenerSets >>

\* waitForRun that subscribes without looking at the status of the run
waitForRun_SubscribesOnly(run) ==
    /\ task[run].wait.pc = "started"
    /\ task' = [task EXCEPT ![run].wait.pc = "waiting",
                            ![run].wait.onAbort = ~abort[run]]
    /\ topicListeners' = [topicListeners EXCEPT ![task[run].wait.child] =
                             @ \cup {Waiter(run)}]
    /\ response' = NoResponse
    /\ UNCHANGED << activePipelines, abort, timeoutTimer, dbRuns, dbSteps,
                    published, storedAtPublish,
                    nextRunId, shuttingDown, thrown, subscriber,
                    poll, resolution, listenerSets >>

\* waitForRun(runId, signal, log), called when `await ctx.executePipeline`
\* resumes: the status check, and for a run that is not over the subscription,
\* the abort listener (which a signal already aborted never calls) and the
\* second status check
waitForRun(run) ==
    /\ task[run].wait.pc = "started"
    /\ IF dbRuns[task[run].wait.child].status \in TERMINAL_STATUSES
       THEN /\ task' = [task EXCEPT ![run].wait.pc = "resolved",
                                    ![run].wait.via = "check",
                                    ![run].wait.status =
                                        dbRuns[task[run].wait.child].status]
            /\ UNCHANGED topicListeners
       ELSE /\ task' = [task EXCEPT ![run].wait.pc = "waiting",
                                    ![run].wait.onAbort = ~abort[run]]
            /\ topicListeners' =
                  IF Cardinality(topicListeners[task[run].wait.child])
                        >= MAX_LISTENERS_PER_TOPIC
                  THEN topicListeners
                  ELSE [topicListeners EXCEPT ![task[run].wait.child] =
                           @ \cup {Waiter(run)}]
    /\ response' = NoResponse
    /\ UNCHANGED << activePipelines, abort, timeoutTimer, dbRuns, dbSteps,
                    published, storedAtPublish,
                    nextRunId, shuttingDown, thrown, subscriber,
                    poll, resolution, listenerSets >>

\* a handler that returns its output whatever status waitForRun resolved with
TriggerHandlerSettles_AnyStatus(run) ==
    /\ task[run].pc = "handler"
    /\ task[run].wait.pc \in {"resolved", "rejected"}
    /\ LET ok == task[run].wait.pc = "resolved"
       IN  /\ Commit([executeStepEnd(State, run, ok, abort[run])
                         EXCEPT !.task[run].wait = NoWait])
           /\ thrown' = IF ok THEN thrown
                        ELSE [thrown EXCEPT ![run] = [step |-> task[run].i,
                                                      aborted |-> abort[run]]]
    /\ response' = NoResponse
    /\ UNCHANGED << abort, shuttingDown >>
    /\ UNCHANGED << poll, resolution, listenerSets >>

\* the trigger-pipeline handler resumes after an await that rejected or after
\* waitForRun resolved, returns or throws, and executeStep resumes
TriggerHandlerSettles(run) ==
    /\ task[run].pc = "handler"
    /\ task[run].wait.pc \in {"resolved", "rejected"}
    /\ LET ok == task[run].wait.pc = "resolved"
                     /\ task[run].wait.status = "success"
       IN  /\ Commit([executeStepEnd(State, run, ok, abort[run])
                         EXCEPT !.task[run].wait = NoWait])
           /\ thrown' = IF ok THEN thrown
                        ELSE [thrown EXCEPT ![run] = [step |-> task[run].i,
                                                      aborted |-> abort[run]]]
    /\ response' = NoResponse
    /\ UNCHANGED << abort, shuttingDown >>
    /\ UNCHANGED << poll, resolution, listenerSets >>

\* runSteps resumes after `await executeStep(...)`
RunStepsResumes(run) ==
    /\ task[run].pc = "await"
    /\ Commit(runStepsResume(State, run, abort[run]))
    /\ response' = NoResponse
    /\ UNCHANGED << abort, shuttingDown, thrown >>
    /\ UNCHANGED << poll, resolution, listenerSets >>

\* the callback of the safety timer
TimeoutFires(run) ==
    /\ timeoutTimer[run]
    /\ ~MicrotaskPending
    /\ timeoutTimer' = [timeoutTimer EXCEPT ![run] = FALSE]
    /\ AbortFires({run})
    /\ response' = NoResponse
    /\ UNCHANGED << activePipelines, dbRuns, dbSteps,
                    published, storedAtPublish,
                    nextRunId, shuttingDown, thrown >>
    /\ UNCHANGED << subscriber, poll, resolution, listenerSets >>

\* what the caller of cancelPipeline(runId) answers: { ok: true } for true,
\* a 404 for false
CancelResult(runId, found) ==
    [statusCode |-> IF found THEN 200 ELSE 404, key |-> "", runId |-> runId]

\* a cancelPipeline that aborts and reports a match without looking for one
cancelPipeline_AlwaysTrue(runId) ==
    /\ abort' = [abort EXCEPT ![runId] = TRUE]
    /\ response' = CancelResult(runId, TRUE)
    /\ UNCHANGED << activePipelines, timeoutTimer, task, dbRuns, dbSteps,
                    published, storedAtPublish,
                    nextRunId, shuttingDown, thrown >>
    /\ UNCHANGED otherVars

cancelPipeline(runId) ==
    /\ IF \E key \in Keys : activePipelines[key] = runId
       THEN /\ AbortFires({runId})
            /\ response' = CancelResult(runId, TRUE)
       ELSE /\ UNCHANGED << abort, task, topicListeners >>
            /\ response' = CancelResult(runId, FALSE)
    /\ UNCHANGED << activePipelines, timeoutTimer, dbRuns, dbSteps,
                    published, storedAtPublish,
                    nextRunId, shuttingDown, thrown >>
    /\ UNCHANGED << subscriber, poll, resolution, listenerSets >>

shutdownAll ==
    /\ ~shuttingDown
    /\ ~MicrotaskPending
    /\ shuttingDown' = TRUE
    /\ LET active == {activePipelines[key] : key \in Keys} \ {NoRun}
       IN  /\ AbortFires(active)
           /\ dbRuns' = [r \in Runs |->
                           IF r \in active
                           THEN updateRunStatus(State, r, "cancelled",
                                                ServerShutdown).runs[r]
                           ELSE dbRuns[r]]
    /\ activePipelines' = [key \in Keys |-> NoRun]
    /\ response' = NoResponse
    /\ UNCHANGED << timeoutTimer, dbSteps,
                    published, storedAtPublish, nextRunId, thrown >>
    /\ UNCHANGED << subscriber, poll, resolution, listenerSets >>

\* listRuns({status, limit}): the `limit` most recent rows with that status
listRuns(runs, status, limit) ==
    {r \in DOMAIN runs :
        /\ runs[r].status = status
        /\ Cardinality({q \in DOMAIN runs : q > r /\ runs[q].status = status})
             < limit}

RECOVER_LIMIT == 100

\* for (const run of runs): updateRunStatus(run.id, "failed", ...), then
\* markStaleSteps(run.id); the iterations write disjoint rows
recoverEach(s, status, todo) ==
    [s EXCEPT
        !.runs = [r \in DOMAIN @ |->
                    IF r \in todo
                    THEN updateRunStatus(s, r, "failed", ServerCrashed(status)).runs[r]
                    ELSE @[r]],
        !.steps = [r \in DOMAIN @ |->
                     IF r \in todo THEN markStaleSteps(s, r).steps[r] ELSE @[r]]]

\* called by startServer on the store the previous process left; runs is the
\* content of pipeline_runs before the call (the first pass writes no row whose
\* status is pending, so the second listing reads the same rows)
recoverStaleRuns(s, runs) ==
    recoverEach(
        recoverEach(s, "running", listRuns(runs, "running", RECOVER_LIMIT)),
        "pending", listRuns(runs, "pending", RECOVER_LIMIT))

\* the process ends (exit after shutdown, or a crash) and startServer runs in
\* a new process: the in-memory state is gone, the store is kept
Restart ==
    /\ nextRunId > 1
    /\ activePipelines' = [key \in Keys |-> NoRun]
    /\ abort' = [r \in Runs |-> abort[r] /\ task[r].pc = "done"]
    /\ timeoutTimer' = [r \in Runs |-> FALSE]
    /\ task' = [r \in Runs |->
                  IF task[r].pc \in {"none", "done", "notfound"} THEN task[r]
                  ELSE [task[r] EXCEPT !.pc = "dead", !.i = 0,
                                       !.result = Result("none", Null),
                                       !.wait = NoWait]]
    /\ shuttingDown' = FALSE
    /\ dbRuns' = recoverStaleRuns(State, dbRuns).runs
    /\ dbSteps' = recoverStaleRuns(State, dbRuns).steps
    /\ response' = NoResponse
    /\ UNCHANGED << published, storedAtPublish, nextRunId, thrown >>
    /\ topicListeners' = [tp \in Topics |-> {}]
    /\ UNCHANGED << subscriber, poll, resolution, listenerSets >>

\* the run IDs that the requests of Requests can be given
Requested == 1 .. MaxRuns

Next ==
    \/ \E key \in Keys : TriggerConflict(key)
    \/ \E req \in Requests : TriggerReserve(req.key, req.dryRun, req.params)
    \/ \E run \in Requested : ExecutePipelineLoaded(run)
    \/ \E run \in Requested, ok \in BOOLEAN : HandlerSettles(run, ok)
    \/ \E run \in Requested : RunStepsResumes(run)
    \/ \E run \in Requested : TimeoutFires(run)
    \/ \E run \in Requested : cancelPipeline(run)
    \/ shutdownAll
    \/ Restart

Spec == Init /\ [][Next]_vars

\* ---------------------------------------------------------- fair variant
\* The event loop never idles while a continuation is queued, a timer is
\* armed, or a sleep or a handler is about to settle: a dry run's sleep always
\* ends; a handler is only assumed to settle once the run's abort signal is
\* set.
EventLoopTurn ==
    \E run \in Requested :
        \/ ExecutePipelineLoaded(run)
        \/ RunStepsResumes(run)
        \/ TimeoutFires(run)
        \/ /\ abort[run] \/ task[run].dryRun
           /\ \E ok \in BOOLEAN : HandlerSettles(run, ok)

Fairness == WF_vars(EventLoopTurn)

LiveSpec == Init /\ [][Next]_vars /\ Fairness

\* ------------------------------------------------- recovery at startup
\* startServer on a store of MaxStored run rows left by earlier processes:
\* the `stale` most recent rows are running or pending (the first `running`
\* of them running), the older rows are success.  Every run has two step
\* rows; a running run was in its first step.
MaxStored == RECOVER_LIMIT + 1

StoredStatus(r, stale, running) ==
    IF r <= MaxStored - stale THEN "success"
    ELSE IF r <= MaxStored - stale + running THEN "running"
         ELSE "pending"

StoredSteps(status) ==
    LET row(st) == [step_id |-> "s", status |-> st, error |-> Null,
                    output |-> FALSE]
    IN  CASE status = "success" -> << row("success"), row("success") >>
          [] status = "running" -> << row("running"), row("pending") >>
          [] OTHER -> << row("pending"), row("pending") >>

RecoverInit ==
    /\ \E stale \in 0 .. MaxStored : \E running \in 0 .. stale :
          /\ dbRuns = [r \in 1 .. MaxStored |->
                          [NoRow EXCEPT !.status = StoredStatus(r, stale, running),
                                        !.key = "ns:p1"]]
          /\ dbSteps = [r \in 1 .. MaxStored |->
                           StoredSteps(StoredStatus(r, stale, running))]
    /\ activePipelines = [k \in Keys |-> NoRun]
    /\ abort = [r \in Runs |-> FALSE]
    /\ timeoutTimer = [r \in Runs |-> FALSE]
    /\ task = [r \in Runs |-> NoTask]
    /\ published = [tp \in Topics |-> << >>]
    /\ storedAtPublish = [tp \in Topics |-> << >>]
    /\ nextRunId = 1
    /\ shuttingDown = FALSE
    /\ response = NoResponse
    /\ thrown = [r \in Runs |-> NoThrow]
    /\ topicListeners = [tp \in Topics |-> {}]
    /\ subscriber = [id \in {} |-> NoSubscriber]
    /\ poll = NoPoll
    /\ resolution = NoResolution
    /\ listenerSets = NoListenerSets

\* startServer: recoverStaleRuns() on the store as it is
RecoverAtStartup ==
    /\ dbRuns' = recoverStaleRuns(State, dbRuns).runs
    /\ dbSteps' = recoverStaleRuns(State, dbRuns).steps
    /\ UNCHANGED << activePipelines, abort, timeoutTimer, task, published,
                    storedAtPublish, nextRunId, shuttingDown, response,
                    thrown >>
    /\ UNCHANGED otherVars

RecoverSpec == RecoverInit /\ [][RecoverAtStartup]_vars

\* ------------------------------------------------------------ nested runs
\* One request for a pipeline whose steps trigger other pipelines: "ns:a"
\* runs "ns:b" which runs "ns:c"; "ns:x" runs "ns:y" whose step names "ns:x".
NestedRoots == {"ns:a", "ns:x"}

TriggerRoot(key) ==
    /\ nextRunId = 1
    /\ TriggerReserve(key, FALSE, "none")

NestedNext ==
    \/ \E key \in NestedRoots : TriggerRoot(key)
    \/ \E run \in Runs : ExecutePipelineLoaded(run)
    \/ \E run \in Runs, ok \in BOOLEAN : HandlerSettles(run, ok)
    \/ \E run \in Runs : waitForRun(run)
    \/ \E run \in Runs : TriggerHandlerSettles(run)
    \/ \E run \in Runs : RunStepsResumes(run)
    \/ \E run \in Runs : TimeoutFires(run)
    \/ \E run \in Runs : cancelPipeline(run)
    \/ shutdownAll

NestedSpec == Init /\ [][NestedNext]_vars

\* ------------------------------------------------- pollUntil and sleep
MaxNow == 5                  \* Date.now() runs over 0 .. MaxNow
IntervalMs == 2              \* opts.intervalMs, and the ms of a lone sleep
Deadlines == {0, 3, 5}       \* opts.deadline
TimeoutMessages == {"task timed out", "deploy timed out"}
AbortedError == "Aborted"

\* what opts.check may answer
PollResults ==
    {[kind |-> "continue", value |-> ""],
     [kind |-> "done", value |-> "out1"],
     [kind |-> "done", value |-> "out2"],
     [kind |-> "error", value |-> "task stopped"]}

Throws(p, message) ==
    [p EXCEPT !.pc = "thrown", !.wake = -1,
              !.outcome = [kind |-> "throw", value |-> message]]

\* a rejected sleep: pollUntil does not catch it
sleepRejects(p) ==
    IF p.mode = "pollUntil"
    THEN [Throws(p, AbortedError) EXCEPT !.endedAt = p.now]
    ELSE [p EXCEPT !.pc = "rejected", !.wake = -1, !.endedAt = p.now,
                   !.outcome = [kind |-> "throw", value |-> AbortedError]]

\* sleep(ms, signal) up to its first wait
sleep(p, ms) ==
    IF p.aborted
    THEN sleepRejects([p EXCEPT !.startedAt = p.now])
    ELSE [p EXCEPT !.pc = "sleeping", !.startedAt = p.now, !.wake = p.now + ms]

\* the test of the while loop, and what follows the loop
pollUntilLoop_TimeoutFirst(p) ==
    IF ~p.aborted /\ p.now < p.deadline
    THEN sleep(p, IntervalMs)
    ELSE IF p.now >= p.deadline
         THEN Throws(p, p.timeoutMessage)
         ELSE Throws(p, AbortedError)

pollUntilLoop(p) ==
    IF ~p.aborted /\ p.now < p.deadline
    THEN sleep(p, IntervalMs)
    ELSE IF p.aborted
         THEN Throws(p, AbortedError)
         ELSE Throws(p, p.timeoutMessage)

\* the body of the loop after opts.check has answered
checkStatus_ErrorContinues(p, status) ==
    IF status.kind \in {"continue", "error"}
    THEN pollUntilLoop(p)
    ELSE [p EXCEPT !.pc = "returned",
                   !.outcome = [kind |-> "return", value |-> status.value]]

checkStatus(p, status) ==
    IF status.kind = "continue"
    THEN pollUntilLoop(p)
    ELSE IF status.kind = "error"
         THEN Throws(p, status.value)
         ELSE [p EXCEPT !.pc = "returned",
                        !.outcome = [kind |-> "return", value |-> status.value]]

PollEnded == poll.pc \in {"returned", "thrown", "rejected", "slept"}

notPollVars == << activePipelines, abort, timeoutTimer, task, dbRuns, dbSteps,
                  published, storedAtPublish,
                  nextRunId, shuttingDown, response, thrown,
                  busVars, resolution, listenerSets >>

PollUntilCalled(deadline, message) ==
    /\ poll.pc = "idle"
    /\ poll' = pollUntilLoop([poll EXCEPT !.mode = "pollUntil",
                                          !.deadline = deadline,
                                          !.timeoutMessage = message])
    /\ UNCHANGED notPollVars

SleepCalled ==
    /\ poll.pc = "idle"
    /\ poll' = sleep([poll EXCEPT !.mode = "sleep"], IntervalMs)
    /\ UNCHANGED notPollVars

\* the signal fires: onAbort of a sleep in flight clears the timer and rejects
SignalAborts ==
    /\ ~PollEnded
    /\ ~poll.aborted
    /\ poll' = IF poll.pc = "sleeping"
               THEN sleepRejects([poll EXCEPT !.aborted = TRUE,
                                              !.abortedAt = poll.now,
                                              !.abortedIn = poll.pc])
               ELSE [poll EXCEPT !.aborted = TRUE, !.abortedAt = poll.now,
                                 !.abortedIn = poll.pc]
    /\ UNCHANGED notPollVars

ClockTicks ==
    /\ ~PollEnded
    /\ poll.now < MaxNow
    /\ poll' = [poll EXCEPT !.now = @ + 1]
    /\ UNCHANGED notPollVars

\* the timer of sleep fires; in pollUntil opts.poll() is called next
SleepTimerFires ==
    /\ poll.pc = "sleeping"
    /\ poll.now >= poll.wake
    /\ poll' = IF poll.mode = "pollUntil"
               THEN [poll EXCEPT !.pc = "polling", !.wake = -1,
                                 !.endedAt = poll.now, !.calls = @ + 1]
               ELSE [poll EXCEPT !.pc = "slept", !.wake = -1,
                                 !.endedAt = poll.now]
    /\ UNCHANGED notPollVars

\* opts.poll() and opts.check(result) have answered
CheckAnswers(status) ==
    /\ poll.pc = "polling"
    /\ poll' = checkStatus([poll EXCEPT !.checks = Append(@, status)], status)
    /\ UNCHANGED notPollVars

PollNext ==
    \/ \E deadline \in Deadlines, message \in TimeoutMessages :
           PollUntilCalled(deadline, message)
    \/ SleepCalled
    \/ SignalAborts
    \/ ClockTicks
    \/ SleepTimerFires
    \/ \E status \in PollResults : CheckAnswers(status)

PollSpec == Init /\ [][PollNext]_vars

\* ----------------------------------------------------- the bus on its own
MaxPublished == 3            \* publish calls, all topics together
InitialListeners == {0, MAX_LISTENERS_PER_TOPIC - 1, MAX_LISTENERS_PER_TOPIC}

\* the listeners passed to subscribe after Init
NewListenerIds ==
    (MAX_LISTENERS_PER_TOPIC + 1) ..
        (MAX_LISTENERS_PER_TOPIC + MaxNewListeners)

\* the listeners that subscriber follows and whose closure is called: the
\* last initial ones and the new ones
UnsubscribeIds ==
    (MAX_LISTENERS_PER_TOPIC - 1) ..
        (MAX_LISTENERS_PER_TOPIC + MaxNewListeners)

\* the topics in use: "global" and the topic of one run
BusTopics == {GLOBAL, 1}

\* the status messages of a topic
BusMessages(topic) ==
    {Msg("run:status", topic, "", "running"),
     Msg("step:status", topic, "s1", "success")}

\* listeners 1 .. n are subscribed to one topic and nothing was published
BusInit ==
    /\ \E n \in InitialListeners, topic \in BusTopics :
          /\ topicListeners = [tp \in Topics |->
                                  IF tp = topic
                                  THEN {Recorder(id) : id \in 1 .. n}
                                  ELSE {}]
          /\ subscriber = [id \in UnsubscribeIds |->
                              IF id <= n
                              THEN [NoSubscriber EXCEPT !.topic = topic,
                                                        !.unsub = "real"]
                              ELSE NoSubscriber]
    /\ activePipelines = [k \in Keys |-> NoRun]
    /\ abort = [r \in Runs |-> FALSE]
    /\ timeoutTimer = [r \in Runs |-> FALSE]
    /\ task = [r \in Runs |-> NoTask]
    /\ dbRuns = [r \in Runs |-> NoRow]
    /\ dbSteps = [r \in Runs |-> << >>]
    /\ published = [tp \in Topics |-> << >>]
    /\ storedAtPublish = [tp \in Topics |-> << >>]
    /\ nextRunId = 1
    /\ shuttingDown = FALSE
    /\ response = NoResponse
    /\ thrown = [r \in Runs |-> NoThrow]
    /\ poll = NoPoll
    /\ resolution = NoResolution
    /\ listenerSets = NoListenerSets

notBusVars ==
    << abort, shuttingDown, response, thrown, poll, resolution, listenerSets >>

BusSubscribe(id, topic) ==
    /\ subscriber[id].unsub = "none"
    /\ Commit(subscribe(State, topic, id))
    /\ UNCHANGED notBusVars

\* callers call the closure once (an abort listener with once: true)
BusUnsubscribe(id) ==
    /\ subscriber[id].unsub # "none"
    /\ ~subscriber[id].called
    /\ Commit(unsubscribe(State, id))
    /\ UNCHANGED notBusVars

PublishCalls == Len(published[0]) + Len(published[1]) + Len(published[2])

BusPublish(topic, message) ==
    /\ PublishCalls < MaxPublished
    /\ Commit(publish(State, topic, message))
    /\ UNCHANGED notBusVars

BusNext ==
    \/ \E id \in NewListenerIds, topic \in BusTopics : BusSubscribe(id, topic)
    \/ \E id \in UnsubscribeIds : BusUnsubscribe(id)
    \/ \E topic \in BusTopics : \E message \in BusMessages(topic) :
           BusPublish(topic, message)

BusSpec == BusInit /\ [][BusNext]_vars

\* ------------------------------------------- resolveConfig on its own
MaxParts == 3                \* the pieces a template string is made of

Text(chars) == [kind |-> "text", chars |-> chars]
Expr(chars) == [kind |-> "expr", chars |-> chars]

\* the pieces: plain text, and {{...}} around one of these expressions
Fragments ==
    { Text(<< "-" >>),
      Text(<< "p", "r", "e", "f", "i", "x", "-" >>),
      Text(<< "-", "s", "u", "f", "f", "i", "x" >>),
      Expr(PARAM_DOT \o << "a" >>),
      Expr(PARAM_DOT \o << "b" >>),
      Expr(<< " " >> \o PARAM_DOT \o << "y", " " >>),
      Expr(PARAM_DOT \o << "a", "|", "f", "b" >>),
      Expr(PARAM_DOT \o << "b", " ", "|", " ", "f", "b", " " >>),
      Expr(PARAM_DOT \o << "constructor" >>),
      Expr(PARAM_DOT \o << "constructor", "|", "f", "b" >>),
      Expr(VARS_DOT \o << "v" >>),
      Expr(VARS_DOT \o << "s" >>),
      Expr(VARS_DOT \o << "u" >>),
      Expr(<< "e", "n", "v" >>) }

Templates == UNION {[1 .. n -> Fragments] : n \in 1 .. MaxParts}

\* the string the pieces spell
RECURSIVE Spell(_)
Spell(parts) ==
    IF parts = << >> THEN << >>
    ELSE (IF Head(parts).kind = "expr" THEN LB \o Head(parts).chars \o RB
          ELSE Head(parts).chars) \o Spell(Tail(parts))

Abc == JsString(<< "a", "b", "c" >>)
ParamTemplate == JsString(LB \o PARAM_DOT \o << "a" >> \o RB)

\* the run parameters: the parsed JSON body of the trigger request
TemplateParams ==
    { JsObject(1, << >>),
      JsObject(1, << Prop(<< "a" >>, Abc),
                     Prop(<< "b" >>, JsBoolean(TRUE)),
                     Prop(<< "y" >>, Abc) >>),
      JsObject(1, << Prop(<< "a" >>, JsString(<< >>)),
                     Prop(<< "b" >>, JsBoolean(FALSE)),
                     Prop(<< "y" >>, Abc) >>),
      JsObject(1, << Prop(<< "a" >>, JsString(<< "x" >>)),
                     Prop(<< "b" >>, JsString(<< "y" >>)) >>) }

\* the namespace variables: an array that holds a template, and a string
\* that is one
TemplateVars ==
    { JsObject(2, << >>),
      JsObject(2, << Prop(<< "v" >>,
                          JsArray(3, << ParamTemplate, JsBoolean(TRUE) >>)),
                     Prop(<< "s" >>, ParamTemplate) >>) }

Env == << "env" >>
Nested ==
    JsObject(7, << Prop(SWITCH, JsString(<< "y" >>)),
                   Prop(CASES, JsObject(8, << Prop(<< "a", "b", "c" >>,
                                                   JsNumber(4)) >>)) >>)

SwitchCases ==
    { JsUndefined,
      JsObject(5, << Prop(<< "a" >>, JsNumber(1)),
                     Prop(<< "b" >>, JsNumber(2)) >>),
      JsObject(5, << Prop(<< "a" >>, JsNull),
                     Prop(<< "b" >>, ParamTemplate),
                     Prop(<< "t", "r", "u", "e" >>, Nested) >>) }

SwitchDefaults == {JsUndefined, JsNumber(3), JsNull, Nested}

\* { $switch: "env", cases, default }, a key being absent when undefined
SwitchObject(cases, default) ==
    JsObject(4, << Prop(SWITCH, JsString(Env)) >>
                \o (IF cases = JsUndefined THEN << >>
                    ELSE << Prop(CASES, cases) >>)
                \o (IF default = JsUndefined THEN << >>
                    ELSE << Prop(DEFAULT, default) >>))

SwitchParamValues ==
    { JsUndefined, JsString(<< >>), JsString(<< "a" >>), JsString(<< "b" >>),
      JsString(<< "z" >>), JsBoolean(TRUE), JsString(<< "constructor" >>) }

SwitchParams ==
    { JsObject(1, (IF env = JsUndefined THEN << >>
                   ELSE << Prop(Env, env) >>)
                  \o (IF a = JsUndefined THEN << >>
                      ELSE << Prop(<< "a" >>, a), Prop(<< "y" >>, a) >>)) :
        env \in SwitchParamValues, a \in {JsUndefined, Abc} }

\* configs that are arrays and objects
Trees ==
    { JsArray(6, << ParamTemplate, JsString(<< "-" >>), JsNull >>),
      JsArray(6, << JsArray(9, << JsString(LB \o VARS_DOT \o << "v" >> \o RB)
                                >>) >>),
      JsObject(6, << Prop(<< "k" >>, ParamTemplate),
                     Prop(<< "sw" >>, SwitchObject(JsUndefined, Nested))
                   >>) }

notTemplateVars ==
    << activePipelines, abort, timeoutTimer, task, dbRuns, dbSteps,
       published, storedAtPublish,
       nextRunId, shuttingDown, response, thrown, busVars, poll,
       listenerSets >>

ResolveTemplate(parts, ctx) ==
    /\ resolution.pc = "idle"
    /\ resolution' =
           [pc |-> "returned", kind |-> "template", parts |-> parts,
            value |-> JsString(Spell(parts)), ctx |-> ctx,
            result |-> resolveConfig(JsString(Spell(parts)), ctx, 0)]
    /\ UNCHANGED notTemplateVars

ResolveSwitch(obj, ctx) ==
    /\ resolution.pc = "idle"
    /\ resolution' =
           [pc |-> "returned", kind |-> "switch", parts |-> << >>,
            value |-> obj, ctx |-> ctx,
            result |-> resolveConfig(obj, ctx, 0)]
    /\ UNCHANGED notTemplateVars

ResolveTree(value, ctx) ==
    /\ resolution.pc = "idle"
    /\ resolution' =
           [pc |-> "returned", kind |-> "tree", parts |-> << >>,
            value |-> value, ctx |-> ctx,
            result |-> resolveConfig(value, ctx, 0)]
    /\ UNCHANGED notTemplateVars

TemplateNext ==
    \/ \E parts \in Templates, params \in TemplateParams,
          vs \in TemplateVars :
           ResolveTemplate(parts, [params |-> params, vars |-> vs])
    \/ \E cases \in SwitchCases, default \in SwitchDefaults,
          params \in SwitchParams, vs \in TemplateVars :
           ResolveSwitch(SwitchObject(cases, default),
                         [params |-> params, vars |-> vs])
    \/ \E value \in Trees, params \in TemplateParams, vs \in TemplateVars :
           ResolveTree(value, [params |-> params, vars |-> vs])

TemplateSpec == Init /\ [][TemplateNext]_vars

\* --------------------------------------- the bus, Set by Set, on its own
notSetVars ==
    << activePipelines, abort, timeoutTimer, task, dbRuns, dbSteps,
       published, storedAtPublish,
       nextRunId, shuttingDown, response, thrown, busVars, poll,
       resolution >>

SetSubscribe(id, topic) ==
    /\ listenerSets.closure[id].topic = NoTopic
    /\ listenerSets' = subscribeSet(listenerSets, topic, id)
    /\ UNCHANGED notSetVars

SetUnsubscribe(id) ==
    /\ listenerSets.closure[id].topic # NoTopic
    /\ listenerSets.closure[id].calls < MaxCalls
    /\ listenerSets' = unsubscribeSet(listenerSets, id)
    /\ UNCHANGED notSetVars

SetPublish(topic) ==
    /\ listenerSets.published < MaxPublished
    /\ listenerSets' = publishSet(listenerSets, topic)
    /\ UNCHANGED notSetVars

SetsNext ==
    \/ \E id \in SetListeners, topic \in BusTopics : SetSubscribe(id, topic)
    \/ \E id \in SetListeners : SetUnsubscribe(id)
    \/ \E topic \in BusTopics : SetPublish(topic)

SetsSpec == Init /\ [][SetsNext]_vars

\* ------------------------------------------------------------- vocabulary
Defs(run) == Pipeline(task[run].key)
NSteps(run) == Len(dbSteps[run])
StepStatus(run, k) == dbSteps[run][k].status
\* the step loop of the run has started and has not finished
InStepLoop(run) == task[run].pc \in {"handler", "await"}
Finishes(run) == task[run].pc \in {"handler", "await", "loading"} /\ task'[run].pc = "done"
AllRegistered(key) == \A k \in DOMAIN Pipeline(key) : getAction(Pipeline(key)[k].action)

\* ------------------------------------------------------------------- C1
\* C1: for every key, at most one non-dry-run run of that key has a step loop
\* that has started and not yet finished.
C1_OneStepLoopPerKey ==
    \A r1, r2 \in Runs :
        ( /\ r1 # r2
          /\ InStepLoop(r1) /\ InStepLoop(r2)
          /\ ~task[r1].dryRun /\ ~task[r2].dryRun )
        => task[r1].key # task[r2].key

\* ------------------------------------------------------------------- C2
\* C2: when a non-dry-run trigger is issued for a key while an earlier
\* non-dry-run trigger of that key is still awaiting the config provider, the
\* later one fails with Conflict: it never becomes a run.
C2_OverlappingTriggerConflicts ==
    \A r1, r2 \in Runs :
        ( /\ r1 < r2
          /\ task[r1].pc = "loading" /\ ~task[r1].dryRun
          /\ task[r1].key = task[r2].key )
        => (task[r2].pc = "none" \/ task[r2].dryRun)

\* ------------------------------------------------------------------- C3
\* C3: a non-dry-run trigger for a key whose slot is occupied reserves nothing
\* and starts no run; the Conflict it throws has status 409 and names the run
\* that holds the slot; the registry, the persisted runs and steps and the
\* published events are left as they were.
C3_ConflictMutatesNothing ==
    [][ /\ \A key \in Keys :
             activePipelines[key] # NoRun =>
                 /\ activePipelines'[key] \in {activePipelines[key], NoRun}
                 /\ \A r \in Runs :
                        (task[r].pc = "none" /\ task'[r].pc # "none"
                         /\ task'[r].key = key) => task'[r].dryRun
        /\ (response' # response /\ response'.statusCode = 409) =>
             /\ activePipelines[response'.key] # NoRun
             /\ response'.runId = activePipelines[response'.key]
             /\ UNCHANGED << activePipelines, dbRuns, dbSteps, published, task,
                             abort, timeoutTimer >>
      ]_vars

C3_Witness ==
    /\ response.statusCode = 409
    /\ activePipelines[response.key] = response.runId
    /\ dbRuns[response.runId].status = "running"

\* ------------------------------------------------------------------- C4
\* C4: a non-dry run of a pipeline whose actions are all registered, whose
\* abort signal is never set and whose handler of step k is the first to
\* fail, ends with steps 1..k-1 success, step k failed with the handler's
\* error text, steps k+1..N skipped and the run failed with that text.
C4_FailAtStepK ==
    \A r \in Runs :
        ( /\ task[r].pc = "done" /\ ~task[r].dryRun /\ ~abort[r]
          /\ AllRegistered(task[r].key)
          /\ thrown[r].step > 0 )
        => LET k == thrown[r].step
               msg == HandlerError(Defs(r)[k])
           IN  /\ \A j \in 1 .. (k - 1) : StepStatus(r, j) = "success"
               /\ StepStatus(r, k) = "failed"
               /\ dbSteps[r][k].error = msg
               /\ \A j \in (k + 1) .. NSteps(r) : StepStatus(r, j) = "skipped"
               /\ dbRuns[r].status = "failed"
               /\ dbRuns[r].error = msg

C4_Witness ==
    \E r \in Runs :
        /\ task[r].pc = "done" /\ ~task[r].dryRun /\ ~abort[r]
        /\ AllRegistered(task[r].key)
        /\ thrown[r].step = 2 /\ NSteps(r) = 3
        /\ dbRuns[r].status = "failed"

\* ------------------------------------------------------------------- C5
\* C5: when the abort signal is set while the handler of step k is in flight
\* and the handler then throws, step k is persisted skipped, steps k+1..N
\* skipped, and the run finishes cancelled.
C5_CancelledStepIsSkipped ==
    \A r \in Runs :
        ( /\ task[r].pc = "done"
          /\ thrown[r].step > 0 /\ thrown[r].aborted )
        => /\ \A j \in thrown[r].step .. NSteps(r) : StepStatus(r, j) = "skipped"
           /\ dbRuns[r].status = "cancelled"

C5_Witness ==
    \E r \in Runs :
        /\ task[r].pc = "done" /\ ~task[r].dryRun
        /\ thrown[r].step = 2 /\ thrown[r].aborted /\ NSteps(r) = 3
        /\ StepStatus(r, 1) = "success"
        /\ dbRuns[r].status = "cancelled"

C7_TerminalStatusIsFinal ==
    [][ \A r \in Runs :
          dbRuns[r].status \in TERMINAL_STATUSES =>
              dbRuns'[r].status = dbRuns[r].status ]_vars

\* a run that shutdownAll persisted as cancelled while its handler was in
\* flight, and whose step loop has finished since
C7_Witness ==
    \E r \in Runs :
        /\ task[r].pc = "done"
        /\ dbRuns[r].status = "cancelled"
        /\ dbRuns[r].error = ServerShutdown
        /\ StepStatus(r, 1) = "success"

\* ------------------------------------------------------------------- C8
\* C8: at most one step of a run is persisted running; a step is marked
\* running only when every earlier step is terminal, no earlier step is
\* failed and the abort signal is not set; a step never returns to pending
\* or leaves a terminal status, and is skipped from pending rather than run
\* once an earlier step has failed or the run is cancelled.
C8_StepsInOrder ==
    /\ [](\A r \in Runs :
            Cardinality({k \in DOMAIN dbSteps[r] : StepStatus(r, k) = "running"}) <= 1)
    /\ [][ \A r \in Runs : \A k \in DOMAIN dbSteps[r] :
             LET old == dbSteps[r][k].status
                 new == dbSteps'[r][k].status
             IN  /\ (new = "running" /\ old # "running") =>
                        /\ old = "pending"
                        /\ ~abort[r] /\ ~abort'[r]
                        /\ dbRuns'[r].status = "running"
                        /\ \A j \in 1 .. (k - 1) :
                               dbSteps'[r][j].status \in {"success", "skipped"}
                 /\ old \in StepTerminal => new = old
                 /\ old = "running" => new \in {"running"} \cup StepTerminal
                 /\ (old = "pending" /\ new \notin {"pending", "running"}) =>
                        new = "skipped"
         ]_vars

C8_Witness ==
    \E r \in Runs :
        /\ NSteps(r) = 3
        /\ StepStatus(r, 1) = "success"
        /\ StepStatus(r, 2) = "failed"
        /\ StepStatus(r, 3) = "skipped"

\* ------------------------------------------------------------------- C9
\* C9: every run whose trigger returned a run ID eventually has a terminal
\* persisted status, and the slot a non-dry run reserved is eventually not
\* held by it any more.  Stated as: whenever some run is in its step loop,
\* a state follows in which none is (a run enters its step loop once), and a
\* run that has left its step loop has a terminal status and holds no slot.
C9_RunsReachTerminalStatus ==
    /\ (\E r \in Runs : InStepLoop(r)) ~> (\A r \in Runs : ~InStepLoop(r))
    /\ [](\A r \in Runs :
            task[r].pc \in {"done", "dead"} =>
                /\ dbRuns[r].status # "none" =>
                       dbRuns[r].status \in TERMINAL_STATUSES
                /\ \A key \in Keys : activePipelines[key] # r)

\* a run that nothing cancelled but its safety timer, finished and released
C9_Witness ==
    \E r \in Runs :
        /\ task[r].pc = "done" /\ ~task[r].dryRun
        /\ abort[r] /\ ~shuttingDown
        /\ dbRuns[r].status = "cancelled"
        /\ dbRuns[r].error = Null
        /\ activePipelines[task[r].key] = NoRun

\* ------------------------------------------------------------------ C10
\* C10: when an exception escapes the step loop, the run is persisted failed,
\* every step that was running is persisted failed and every step that was
\* pending skipped, the timer is cleared and (unless dry-run) the slot of the
\* run's key is removed.
C10_EscapedExceptionFailsRun ==
    [][ \A r \in Runs :
          (task[r].pc = "await" /\ task[r].result.kind = "threw"
           /\ task'[r].pc = "done") =>
              /\ dbRuns'[r].status = "failed"
              /\ dbRuns'[r].error = UnexpectedError(task[r].result.msg)
              /\ \A k \in DOMAIN dbSteps[r] :
                     /\ StepStatus(r, k) = "running" => dbSteps'[r][k].status = "failed"
                     /\ StepStatus(r, k) = "pending" => dbSteps'[r][k].status = "skipped"
                     /\ dbSteps'[r][k].status \in StepTerminal
              /\ ~timeoutTimer'[r]
              /\ ~task[r].dryRun => activePipelines'[task[r].key] = NoRun
      ]_vars

C10_Witness ==
    \E r \in Runs :
        /\ task[r].pc = "done"
        /\ dbRuns[r].status = "failed"
        /\ dbRuns[r].error = UnexpectedError(ResolveError(Defs(r)[2]))
        /\ StepStatus(r, 2) = "skipped"
        /\ ~timeoutTimer[r]

\* ------------------------------------------------------------------ C11
\* C11: when resolving the configuration of step k throws, the run ends with
\* step k persisted failed, steps k+1..N skipped, and the run failed with the
\* text of the resolution error (with or without a prefix) as its error.
C11_ResolveErrorFailsStep ==
    [][ \A r \in Runs :
          (task[r].pc = "await" /\ task[r].result.kind = "threw"
           /\ task'[r].pc = "done") =>
              LET k == task[r].i
                  msg == task[r].result.msg
              IN  /\ dbSteps'[r][k].status = "failed"
                  /\ \A j \in (k + 1) .. NSteps(r) : dbSteps'[r][j].status = "skipped"
                  /\ dbRuns'[r].status = "failed"
                  /\ dbRuns'[r].error \in {msg, UnexpectedError(msg)}
      ]_vars

\* ------------------------------------------------------------------ C12
\* C12: a trigger whose key no configuration defines throws a 404; it
\* persists no run row and no step row, publishes nothing, and leaves no slot:
\* the slot of a non-dry trigger's key is empty after the throw and no slot
\* ever names the run, so a later trigger of the key is not refused for it.
C12_NotFoundLeavesNothing ==
    /\ [][ \A r \in Runs :
              (task[r].pc = "loading" /\ task'[r].pc # "loading"
               /\ task[r].key \notin Configured /\ task'[r].pc # "dead") =>
                  /\ task'[r].pc = "notfound"
                  /\ response' = PipelineError(404, task[r].key, NoRun)
                  /\ UNCHANGED << dbRuns, dbSteps, published >>
                  /\ ~task[r].dryRun => activePipelines'[task[r].key] = NoRun
          ]_vars
    /\ [](\A r \in Runs :
            task[r].pc = "notfound" =>
                /\ \A key \in Keys : activePipelines[key] # r
                /\ dbRuns[r].status = "none"
                /\ dbSteps[r] = << >>
                /\ published[r] = << >>
                /\ \A n \in DOMAIN published[GLOBAL] :
                       published[GLOBAL][n].runId # r)

\* a 404, and a later non-dry trigger of the same key that was accepted
C12_Witness ==
    \E r1, r2 \in Runs :
        /\ r1 < r2
        /\ task[r1].pc = "notfound" /\ ~task[r1].dryRun
        /\ task[r2].key = task[r1].key /\ ~task[r2].dryRun
        /\ task[r2].pc = "loading"
        /\ activePipelines[task[r2].key] = r2

\* ------------------------------------------------------------------ C13
\* C13: at the step where executePipeline returns a run ID, the run row has
\* been created, there is one step row per step of the pipeline in the order
\* of the definition, the run's status has left pending for running (and, if
\* abort was set while the configuration was loading, the synchronous start
\* of the step loop has already moved it on to cancelled), run:started has
\* been published on the global topic and run:status running on the run's.
C13_PersistedBeforeReturn ==
    [][ \A r \in Runs :
          (task[r].pc = "loading"
           /\ task'[r].pc \notin {"loading", "notfound", "dead"}) =>
              /\ dbRuns[r].status = "none"
              /\ dbRuns'[r].status = IF abort[r] THEN "cancelled" ELSE "running"
              /\ dbRuns'[r].key = task[r].key
              /\ Len(dbSteps'[r]) = Len(Defs(r))
              /\ \A k \in DOMAIN Defs(r) : dbSteps'[r][k].step_id = Defs(r)[k].id
              /\ published'[GLOBAL] =
                     Append(published[GLOBAL], Msg("run:started", r, "", ""))
              /\ published[r] = << >>
              /\ published'[r][1] = Msg("run:status", r, "", "running")
      ]_vars

\* a run whose trigger has just returned: rows written, first handler called
C13_Witness ==
    \E r \in Runs :
        /\ task[r].pc = "handler" /\ task[r].i = 1
        /\ dbRuns[r].status = "running"
        /\ NSteps(r) = 3
        /\ << dbSteps[r][1].step_id, dbSteps[r][2].step_id, dbSteps[r][3].step_id >>
              = << "s1", "s2", "s3" >>
        /\ \E n \in DOMAIN published[GLOBAL] :
               published[GLOBAL][n] = Msg("run:started", r, "", "")

\* ------------------------------------------------------------------ C14
\* C14: a dry-run trigger passes the conflict check whether or not the slot
\* of its key is occupied; no step of a dry run (trigger, 404, step loop,
\* finish) changes the slot registry, and no slot ever names a dry run.
C14_DryRunNeverTouchesSlots ==
    /\ [][ \A r \in Runs :
              (task'[r] # task[r] /\ task'[r].dryRun /\ task'[r].pc # "dead") =>
                  UNCHANGED activePipelines ]_vars
    /\ [](\A r \in Runs :
            task[r].dryRun => \A key \in Keys : activePipelines[key] # r)
    /\ [](\A req \in Requests :
            (req.dryRun /\ nextRunId <= MaxRuns) =>
                ENABLED TriggerReserve(req.key, req.dryRun, req.params))

\* a dry run triggered while another run held the slot of its key, finished,
\* with the slot still held by that run
C14_Witness ==
    \E r, q \in Runs :
        /\ q < r
        /\ task[r].dryRun /\ task[r].pc = "done"
        /\ dbRuns[r].status = "success"
        /\ ~task[q].dryRun /\ task[q].key = task[r].key
        /\ activePipelines[task[r].key] = q

\* ------------------------------------------------------------------ C15
\* C15: no handler is ever in flight for a step whose action is not in the
\* registry; when the step loop reaches such a step it persists the step as
\* skipped with no error, executeStep returns "success" and the run stays
\* running; the loop then goes on to the next step.
C15_UnregisteredActionIsSkipped ==
    /\ [](\A r \in Runs :
            task[r].pc = "handler" => getAction(Defs(r)[task[r].i].action))
    /\ [][ \A r \in Runs : \A k \in DOMAIN dbSteps'[r] :
              ( /\ ~getAction(Defs(r)[k].action)
                /\ task'[r].pc = "await" /\ task'[r].i = k
                /\ task[r].pc # "await" ) =>
                  /\ dbSteps'[r][k].status = "skipped"
                  /\ dbSteps'[r][k].error = Null
                  /\ task'[r].result.kind = "success"
                  /\ dbRuns'[r].status = "running"
          ]_vars
    /\ [][ \A r \in Runs :
              ( /\ task[r].pc = "await" /\ task[r].result.kind = "success"
                /\ ~getAction(Defs(r)[task[r].i].action)
                /\ task[r].i < Len(Defs(r)) /\ ~abort[r]
                /\ task'[r] # task[r] /\ task'[r].pc # "dead" ) =>
                  task'[r].i = task[r].i + 1
          ]_vars

\* a run that skipped its unregistered first step and finished success
C15_Witness ==
    \E r \in Runs :
        /\ task[r].pc = "done" /\ task[r].key = "ns:p2"
        /\ ~getAction(Defs(r)[1].action)
        /\ StepStatus(r, 1) = "skipped"
        /\ StepStatus(r, 2) = "success"
        /\ dbRuns[r].status = "success"

\* ------------------------------------------------------------------ C16
\* C16: the safety timer of a run is armed only while the run is in its step
\* loop.  When it fires it sets the run's abort signal and changes nothing
\* else, and the run then finishes cancelled with every step after the one
\* in flight skipped and no step failed.  A run that has finished has no
\* armed timer, and its abort signal is never set afterwards.
\* (A run in its step loop whose timer is not armed is one whose timer fired.)
C16_TimeoutCancelsLikeCancel ==
    /\ [](\A r \in Runs : timeoutTimer[r] => InStepLoop(r))
    /\ [][ \A r \in Runs :
              (timeoutTimer[r] /\ ~timeoutTimer'[r] /\ task'[r] = task[r]) =>
                  /\ abort'[r]
                  /\ \A q \in Runs \ {r} : abort'[q] = abort[q]
                  /\ UNCHANGED << activePipelines, dbRuns, dbSteps, published >>
          ]_vars
    /\ [][ \A r \in Runs :
              (InStepLoop(r) /\ ~timeoutTimer[r] /\ task'[r].pc = "done") =>
                  /\ abort[r]
                  /\ dbRuns'[r].status = "cancelled"
                  /\ \A k \in DOMAIN dbSteps'[r] :
                         /\ dbSteps'[r][k].status \in {"success", "skipped"}
                         /\ k > task[r].i => dbSteps'[r][k].status = "skipped"
          ]_vars
    /\ [][ \A r \in Runs :
              task[r].pc = "done" => (~timeoutTimer[r] /\ abort'[r] = abort[r])
          ]_vars

\* the timer fired while the handler of step 2 was in flight; the handler
\* then threw and the step was persisted skipped
C16_Witness ==
    \E r \in Runs :
        /\ task[r].pc = "await" /\ task[r].i = 2
        /\ ~timeoutTimer[r] /\ abort[r] /\ ~shuttingDown
        /\ task[r].result.kind = "cancelled"
        /\ StepStatus(r, 1) = "success"
        /\ StepStatus(r, 2) = "skipped"

\* ------------------------------------------------------------------ C17
\* C17: cancelPipeline(runId) answers true only in a state where some slot
\* holds runId, and then it sets the abort signal of that run and of no
\* other, and leaves the registry, the run's position, the timers and every
\* persisted record and published event as they were (it does not wait for
\* the run); it answers false only where no slot holds runId, and then it
\* changes nothing.
C17_CancelReturnsWhetherFound ==
    [][ \A r \in Runs :
          /\ response' = CancelResult(r, TRUE) =>
                 /\ \E key \in Keys : activePipelines[key] = r
                 /\ abort'[r]
                 /\ \A q \in Runs \ {r} : abort'[q] = abort[q]
                 /\ UNCHANGED << activePipelines, task, timeoutTimer, dbRuns,
                                 dbSteps, published >>
          /\ response' = CancelResult(r, FALSE) =>
                 /\ \A key \in Keys : activePipelines[key] # r
                 /\ UNCHANGED << abort, activePipelines, task, timeoutTimer,
                                 dbRuns, dbSteps, published >>
      ]_vars

\* cancelPipeline has just answered true for a run whose handler is still in
\* flight and whose persisted status is still running
C17_Witness ==
    \E r \in Runs :
        /\ response = CancelResult(r, TRUE)
        /\ abort[r]
        /\ task[r].pc = "handler"
        /\ dbRuns[r].status = "running"
        /\ activePipelines[task[r].key] = r

\* ------------------------------------------------------------------ C18
\* C18: shutdownAll sets the abort signal of every run that holds a slot,
\* leaves each of those runs persisted as cancelled with the error text
\* "Server shutdown", and leaves the registry empty.
C18_ShutdownCancelsEverySlot ==
    [][ (~shuttingDown /\ shuttingDown') =>
            /\ \A key \in Keys :
                   activePipelines[key] # NoRun =>
                       /\ abort'[activePipelines[key]]
                       /\ dbRuns'[activePipelines[key]].status = "cancelled"
                       /\ dbRuns'[activePipelines[key]].error = ServerShutdown
            /\ \A key \in Keys : activePipelines'[key] = NoRun
      ]_vars

\* ------------------------------------------------------------------ C19
\* C19: a call of recoverStaleRuns leaves no run row running or pending,
\* however many there were; each row that was running or pending is failed
\* with "Server crashed while <its status>", its running steps failed and its
\* pending steps skipped; rows that were terminal, and their steps, are as
\* they were.
C19_RecoverLeavesNoStaleRun ==
    [][ \A r \in DOMAIN dbRuns :
          /\ dbRuns'[r].status \notin {"running", "pending"}
          /\ dbRuns[r].status \in {"running", "pending"} =>
                 /\ dbRuns'[r].status = "failed"
                 /\ dbRuns'[r].error = ServerCrashed(dbRuns[r].status)
                 /\ \A k \in DOMAIN dbSteps[r] :
                        /\ dbSteps[r][k].status = "running" =>
                               dbSteps'[r][k].status = "failed"
                        /\ dbSteps[r][k].status = "pending" =>
                               dbSteps'[r][k].status = "skipped"
          /\ dbRuns[r].status \in TERMINAL_STATUSES =>
                 (dbRuns'[r] = dbRuns[r] /\ dbSteps'[r] = dbSteps[r])
      ]_vars

\* ------------------------------------------------------------------ C20
\* C20: the error text of a persisted run is non-null only if the run's
\* status is failed.
C20_ErrorOnlyIfFailed ==
    \A r \in Runs : dbRuns[r].error # Null => dbRuns[r].status = "failed"

\* C20 as amended: the error text of a persisted run is non-null only if the
\* run's status is failed, or the status is cancelled and the text is the
\* "Server shutdown" that shutdownAll wrote.
C20_ErrorOnlyIfFailedOrShutdown ==
    \A r \in Runs :
        dbRuns[r].error # Null =>
            \/ dbRuns[r].status = "failed"
            \/ dbRuns[r].status = "cancelled" /\ dbRuns[r].error = ServerShutdown

\* a failed run with its error, and a run that shutdownAll cancelled and
\* whose step loop has finished since
C20_Witness ==
    \E r, q \in Runs :
        /\ dbRuns[r].status = "failed" /\ dbRuns[r].error # Null
        /\ task[q].pc = "done"
        /\ dbRuns[q].status = "cancelled" /\ dbRuns[q].error = ServerShutdown

\* ------------------------------------------------------------------ C25
\* the events of a run whose steps from..N all succeed, from step `from` on
RECURSIVE SuccessEvents(_, _)
SuccessEvents(r, from) ==
    IF from > Len(Defs(r)) THEN << Msg("run:status", r, "", "success") >>
    ELSE << Msg("step:status", r, Defs(r)[from].id, "running"),
            Msg("step:status", r, Defs(r)[from].id, "success") >>
         \o SuccessEvents(r, from + 1)

\* the position of the step with that id in the run's pipeline (0: none)
StepIndex(r, stepId) ==
    IF \E k \in DOMAIN Defs(r) : Defs(r)[k].id = stepId
    THEN CHOOSE k \in DOMAIN Defs(r) : Defs(r)[k].id = stepId
    ELSE 0

\* C25: for a finished run whose steps all succeeded, the events published
\* on the run's topic after run:status running are exactly step running,
\* step success for each step in order and then run:status success; and in
\* every run, when the running event of a step is published, a terminal
\* event of every earlier step has been published before it.
C25_EventsInStepLoopOrder ==
    /\ \A r \in Runs :
          ( /\ task[r].pc = "done" /\ dbRuns[r].status = "success"
            /\ \A k \in DOMAIN dbSteps[r] : StepStatus(r, k) = "success" )
          => published[r] =
                 << Msg("run:status", r, "", "running") >> \o SuccessEvents(r, 1)
    /\ \A r \in Runs : \A n \in DOMAIN published[r] :
          ( published[r][n].type = "step:status"
            /\ published[r][n].status = "running" )
          => \A j \in 1 .. (StepIndex(r, published[r][n].stepId) - 1) :
                 \E m \in 1 .. (n - 1) :
                     /\ published[r][m].type = "step:status"
                     /\ published[r][m].stepId = Defs(r)[j].id
                     /\ published[r][m].status \in StepTerminal

\* a three-step run that finished success with its eight events published
C25_Witness ==
    \E r \in Runs :
        /\ task[r].pc = "done" /\ dbRuns[r].status = "success"
        /\ NSteps(r) = 3
        /\ \A k \in DOMAIN dbSteps[r] : StepStatus(r, k) = "success"
        /\ Len(published[r]) = 8
        /\ published[r][8] = Msg("run:status", r, "", "success")

\* ------------------------------------------------------------------ C27
\* the positions of the terminal run:status events on the topic of run r
TerminalEvents(r) ==
    {n \in DOMAIN published[r] :
        /\ published[r][n].type = "run:status"
        /\ published[r][n].status \in TERMINAL_STATUSES}

\* C27: at most one terminal run:status event is ever published on a run's
\* topic and nothing is published on the topic after it; a run whose step
\* loop has finished has published exactly one, with the status the run is
\* persisted with.
C27_OneTerminalEventLast ==
    \A r \in Runs :
        /\ Cardinality(TerminalEvents(r)) <= 1
        /\ \A n \in TerminalEvents(r) : n = Len(published[r])
        /\ task[r].pc = "done" =>
               /\ Cardinality(TerminalEvents(r)) = 1
               /\ published[r][Len(published[r])].status = dbRuns[r].status

\* a run that failed at its second step: its last event is run:status failed
C27_Witness ==
    \E r \in Runs :
        /\ task[r].pc = "done" /\ dbRuns[r].status = "failed"
        /\ NSteps(r) = 3
        /\ StepStatus(r, 2) = "failed" /\ StepStatus(r, 3) = "skipped"
        /\ published[r][Len(published[r])] = Msg("run:status", r, "", "failed")
        /\ published[r][Len(published[r]) - 1] =
               Msg("step:status", r, "s3", "skipped")

\* ------------------------------------------------------------------ C29
AllContinue(checks) ==
    \A i \in 1 .. Len(checks) : checks[i].kind = "continue"

\* C29: pollUntil returns the output of the first check that reports done
\* and calls poll no more after it; it throws the error text of the first
\* check that reports an error; and when every check answered continue and
\* the loop ended with the signal not set, the deadline has passed and the
\* error thrown carries exactly timeoutMessage.
C29_PollUntilOutcome ==
    poll.mode = "pollUntil" =>
        /\ poll.calls \in {Len(poll.checks), Len(poll.checks) + 1}
        /\ poll.calls = Len(poll.checks) + 1 <=> poll.pc = "polling"
        /\ \A i \in 1 .. Len(poll.checks) :
              /\ poll.checks[i].kind = "done" =>
                    /\ i = Len(poll.checks)
                    /\ poll.pc = "returned"
                    /\ poll.outcome = [kind |-> "return",
                                       value |-> poll.checks[i].value]
              /\ poll.checks[i].kind = "error" =>
                    /\ i = Len(poll.checks)
                    /\ poll.pc = "thrown"
                    /\ poll.outcome = [kind |-> "throw",
                                       value |-> poll.checks[i].value]
        /\ PollEnded /\ AllContinue(poll.checks) /\ ~poll.aborted =>
              /\ poll.now >= poll.deadline
              /\ poll.pc = "thrown"
              /\ poll.outcome = [kind |-> "throw",
                                 value |-> poll.timeoutMessage]

\* pollUntil has returned the output of a check that followed a continue
C29_Witness ==
    /\ poll.mode = "pollUntil"
    /\ poll.pc = "returned"
    /\ Len(poll.checks) = 2
    /\ poll.outcome.value = "out2"

\* ------------------------------------------------------------------ C30
\* C30: a sleep in flight when the signal fires rejects at that moment, not
\* at the end of its interval; a sleep started with the signal set rejects
\* without waiting; pollUntil ends with the cancellation error in both
\* cases; and when the loop ends with the signal set, the deadline passed or
\* not, pollUntil throws the cancellation error, never timeoutMessage.
C30_AbortEndsSleepAndPoll ==
    /\ poll.abortedIn = "sleeping" =>
          /\ poll.endedAt = poll.abortedAt
          /\ poll.pc = IF poll.mode = "sleep" THEN "rejected" ELSE "thrown"
          /\ poll.outcome = [kind |-> "throw", value |-> AbortedError]
    /\ poll.abortedIn = "idle" /\ poll.mode # "none" =>
          /\ poll.pc = IF poll.mode = "sleep" THEN "rejected" ELSE "thrown"
          /\ poll.outcome = [kind |-> "throw", value |-> AbortedError]
          /\ poll.mode = "sleep" => poll.endedAt = poll.startedAt
          /\ poll.calls = 0
    /\ /\ poll.mode = "pollUntil"
       /\ PollEnded
       /\ poll.aborted
       /\ AllContinue(poll.checks)
       => poll.outcome = [kind |-> "throw", value |-> AbortedError]

\* the signal fired while poll was in flight, the deadline passed as well,
\* and pollUntil ended
C30_Witness ==
    /\ poll.mode = "pollUntil"
    /\ poll.abortedIn = "polling"
    /\ poll.now >= poll.deadline
    /\ poll.outcome = [kind |-> "throw", value |-> AbortedError]

\* ------------------------------------------------------------------ C26
\* what was published on a topic after call number from, up to call until
PublishedBetween(topic, from, until) ==
    SubSeq(published[topic], from + 1,
           IF until = -1 THEN Len(published[topic]) ELSE until)

C28_ListenerCap ==
    /\ [](\A topic \in Topics :
              Cardinality(topicListeners[topic]) <= MAX_LISTENERS_PER_TOPIC)
    /\ [][/\ \A id \in NewListenerIds, topic \in BusTopics :
                BusSubscribe(id, topic)
                /\ Cardinality(topicListeners[topic]) = MAX_LISTENERS_PER_TOPIC
                => /\ topicListeners' = topicListeners
                   /\ subscriber'[id].unsub = "noop"
                   /\ \A other \in DOMAIN subscriber \ {id} :
                         subscriber'[other] = subscriber[other]
          /\ \A id \in UnsubscribeIds :
                BusUnsubscribe(id) /\ subscriber[id].unsub = "noop"
                => topicListeners' = topicListeners]_vars

\* a subscribe was refused on a full topic, its closure was called, and a
\* listener that was there before was given a message published afterwards
C28_Witness ==
    \E id \in NewListenerIds :
        /\ subscriber[id].unsub = "noop"
        /\ subscriber[id].called
        /\ Cardinality(topicListeners[subscriber[id].topic])
              = MAX_LISTENERS_PER_TOPIC
        /\ Len(subscriber[MAX_LISTENERS_PER_TOPIC].msgs) = 1
        /\ subscriber[MAX_LISTENERS_PER_TOPIC].topic = subscriber[id].topic
        /\ subscriber[id].msgs = << >>

\* ------------------------------------------------------------------ C21
\* step k of run is a trigger-pipeline step whose key is on the call stack
\* the run was given
Circular(run, k) ==
    /\ task[run].pc # "none"
    /\ k \in DOMAIN Defs(run)
    /\ Defs(run)[k].action = TRIGGER
    /\ \E n \in DOMAIN task[run].callStack :
          task[run].callStack[n] = Defs(run)[k].config

ChainOf(run, k) == Append(task[run].callStack, Defs(run)[k].config)

\* C21: a trigger-pipeline step whose key is on the inherited call stack is
\* rejected in the step in which its handler starts, with the circular
\* dependency error that names the whole chain; that step takes no run ID,
\* reserves no slot and writes no row of another run; the step never
\* succeeds, is failed with that error unless the run was aborted, and no run
\* ever has the run as its parent.
C21_CircularTriggerFails ==
    /\ [](\A run \in Runs : \A k \in 1 .. NSteps(run) :
             Circular(run, k) =>
                /\ StepStatus(run, k) # "success"
                /\ StepStatus(run, k) = "failed" =>
                      dbSteps[run][k].error = CircularError(ChainOf(run, k))
                /\ StepStatus(run, k) = "skipped" /\ thrown[run].step = k =>
                      thrown[run].aborted
                /\ StepStatus(run, k) = "running" /\ task[run].pc = "handler" =>
                      /\ task[run].wait.pc = "rejected"
                      /\ task[run].wait.error = CircularError(ChainOf(run, k))
                /\ \A c \in Runs : task[c].parent # run)
    /\ [][\A run \in Runs :
             /\ task[run].pc # "handler"
             /\ task'[run].pc = "handler"
             /\ Circular(run, task'[run].i)
             => /\ nextRunId' = nextRunId
                /\ activePipelines' = activePipelines
                /\ \A r \in Runs \ {run} :
                      dbRuns'[r] = dbRuns[r] /\ dbSteps'[r] = dbSteps[r]]_vars

\* the step of "ns:y" that names "ns:x" has failed with the chain x, y, x and
\* the only runs are those of "ns:x" and "ns:y"
C21_Witness ==
    \E run \in Runs :
        /\ task[run].key = "ns:y"
        /\ NSteps(run) = 1
        /\ StepStatus(run, 1) = "failed"
        /\ dbSteps[run][1].error =
              << "Circular pipeline dependency detected: ",
                 "ns:x", " -> ", "ns:y", " -> ", "ns:x" >>
        /\ nextRunId = 3

\* ------------------------------------------------------------------ C22
\* C22: the handler of a trigger-pipeline step is never left waiting for a
\* child whose runSteps has ended: either waitForRun has yet to look at the
\* child's status, or its promise has settled; and a promise that resolved
\* carries the status the child's row has.
C22_ChildCompletionSeen ==
    \A run \in Runs :
        /\ task[run].wait.pc \in {"starting", "waiting"} =>
              task[task[run].wait.child].pc \in {"loading", "handler", "await"}
        /\ task[run].wait.pc = "waiting" =>
              Waiter(run) \in topicListeners[task[run].wait.child]
        /\ task[run].wait.pc = "resolved" =>
              /\ task[task[run].wait.child].pc = "done"
              /\ task[run].wait.status = dbRuns[task[run].wait.child].status

\* a child finished while its parent's handler was subscribed, and the
\* listener resolved the promise
C22_Witness ==
    \E run \in Runs :
        /\ task[run].wait.pc = "resolved"
        /\ task[run].wait.via = "listener"
        /\ task[run].wait.status = "success"
        /\ task[task[run].wait.child].pc = "done"

\* ------------------------------------------------------------------ C23
\* the signal of every run a step of run started, at any depth, is set with
\* the signal of run
AbortReachesChildren ==
    \A c \in Runs :
        task[c].parent # NoRun /\ abort[task[c].parent] => abort[c]

ChildErrorText(run, status) ==
    IF status = "cancelled" THEN ChildCancelled
    ELSE IF dbRuns[task[run].wait.child].error = Null THEN ChildFailed
    ELSE dbRuns[task[run].wait.child].error

\* C24: when waitForRun has resolved, the trigger-pipeline step is marked
\* success exactly for a child that ended success; for a child that ended
\* failed or cancelled, and the parent's signal not set, the step is marked
\* failed with the child's error text (failed) or the fixed text (cancelled),
\* and the parent's run then ends failed with that text.
C24_StepFollowsChild ==
    /\ [][\A run \in Runs :
             TriggerHandlerSettles(run) /\ task[run].wait.pc = "resolved" =>
                /\ dbSteps'[run][task[run].i].status = "success"
                      <=> task[run].wait.status = "success"
                /\ task[run].wait.status = "success" =>
                      dbRuns[task[run].wait.child].status = "success"
                /\ task[run].wait.status # "success" /\ ~abort[run] =>
                      /\ dbSteps'[run][task[run].i].status = "failed"
                      /\ dbSteps'[run][task[run].i].error =
                            ChildErrorText(run, task[run].wait.status)
                      /\ task'[run].result =
                            Result("failed",
                                   ChildErrorText(run, task[run].wait.status))
          ]_vars
    /\ [][\A run \in Runs :
             RunStepsResumes(run) /\ task[run].result.kind = "failed" =>
                /\ task'[run].pc = "done"
                /\ dbRuns'[run].status = "failed"
                /\ dbRuns'[run].error = task[run].result.msg]_vars

\* the handler of "ns:c" threw, "ns:c" and "ns:b" ended failed, and "ns:a",
\* its signal not set, ended failed with the text of that error
C24_Witness ==
    /\ task[1].key = "ns:a"
    /\ task[1].pc = "done"
    /\ ~abort[1]
    /\ dbRuns[1].status = "failed"
    /\ dbRuns[1].error = << "handler failed", "s1" >>
    /\ dbSteps[1][1].error = dbRuns[2].error
    /\ dbRuns[3].status = "failed"

\* ------------------------------------------------------------------ C31
\* the expression pieces of a template
Exprs(parts) == {i \in 1 .. Len(parts) : parts[i].kind = "expr"}

\* text around an expression, or several expressions
Mixed(parts) == Exprs(parts) # {} /\ Len(parts) > 1

\* the value an expression piece refers to
Refers(part, ctx) == resolveExpression(part.chars, ctx)

\* the pieces with each expression replaced by its stringified value
RECURSIVE Interpolated(_, _)
Interpolated(parts, ctx) ==
    IF parts = << >> THEN << >>
    ELSE (IF Head(parts).kind = "expr"
          THEN String(Refers(Head(parts), ctx))
          ELSE Head(parts).chars) \o Interpolated(Tail(parts), ctx)

\* C31: resolving a string that holds expressions and is not one single
\* expression (text around an expression, or several expressions), each
\* expression referring to a string or a boolean, returns the string with
\* each expression replaced by its stringified value and every other
\* character kept.
C31_MixedStringInterpolates ==
    ( /\ resolution.kind = "template"
      /\ Mixed(resolution.parts)
      /\ \A i \in Exprs(resolution.parts) :
            Refers(resolution.parts[i], resolution.ctx).type
                \in {"string", "boolean"} )
    => resolution.result =
           JsString(Interpolated(resolution.parts, resolution.ctx))

\* ------------------------------------------------------------------ C32
\* the template is one expression, {{vars.<name>}} or {{param.<name>}}
SingleRef(parts) ==
    /\ Len(parts) = 1
    /\ parts[1].kind = "expr"
    /\ parseTemplateRef(parts[1].chars).type \in {"vars", "param"}

\* the object of the context an expression names
Named(ref, ctx) == IF ref.type = "vars" THEN ctx.vars ELSE ctx.params

\* C32: resolving a string that is entirely one {{vars.<name>}} or
\* {{param.<name>}} expression whose name the context holds returns the
\* referenced value itself: same type, same identity, same content.
C32_FullTemplateKeepsValue ==
    LET ref == parseTemplateRef(resolution.parts[1].chars)
        obj == Named(ref, resolution.ctx)
    IN  ( /\ resolution.kind = "template"
          /\ SingleRef(resolution.parts)
          /\ ref.fallback = JsUndefined )
        => \A i \in Own(obj, ref.name) :
               resolution.result = obj.props[i].value

\* {{vars.v}} gave the array of vars, the template in it unresolved
C32_Witness ==
    /\ resolution.kind = "template"
    /\ resolution.parts = << Expr(VARS_DOT \o << "v" >>) >>
    /\ resolution.result = JsArray(3, << ParamTemplate, JsBoolean(TRUE) >>)

\* ------------------------------------------------------------------ C33
\* the own property of an object, which the object holds
OwnValue(obj, key) == obj.props[CHOOSE i \in Own(obj, key) : TRUE].value

\* the stringified current value of the parameter a $switch names
SwitchValue(obj, ctx) ==
    IF Own(ctx.params, OwnValue(obj, SWITCH).chars) = {}
    THEN << >>
    ELSE String(OwnValue(ctx.params, OwnValue(obj, SWITCH).chars))

\* cases has an entry for v
HasCase(obj, v) ==
    Own(obj, CASES) # {} /\ Own(OwnValue(obj, CASES), v) # {}

\* C33: a $switch object resolves to the recursive resolution of cases[v],
\* v being the stringified current value of the named parameter, or of
\* default when cases has no entry for v; it is a resolution error when
\* neither exists.
C33_SwitchSelects ==
    LET obj == resolution.value
        ctx == resolution.ctx
        v == SwitchValue(obj, ctx)
    IN  resolution.kind = "switch"
        => resolution.result =
               IF HasCase(obj, v)
               THEN resolveConfig(OwnValue(OwnValue(obj, CASES), v), ctx, 1)
               ELSE IF Own(obj, DEFAULT) # {}
               THEN resolveConfig(OwnValue(obj, DEFAULT), ctx, 1)
               ELSE Throw("$switch: no case and no default", v)

\* ------------------------------------------------------------------ C34
\* C34: vars.<name> yields the namespace variable and is an error if the
\* name is absent; param.<name> yields the run parameter and is an error if
\* it is absent; param.<name>|<fallback> yields the fallback when the
\* parameter is absent or the empty string and the parameter's own value
\* otherwise, and is never an error.
C34_ExpressionEvaluation ==
    LET ref == parseTemplateRef(resolution.parts[1].chars)
        obj == Named(ref, resolution.ctx)
        absent == Own(obj, ref.name) = {}
    IN  (resolution.kind = "template" /\ SingleRef(resolution.parts))
        => resolution.result =
               IF ref.type = "vars"
               THEN IF absent
                    THEN Throw("Undefined variable: vars.", ref.name)
                    ELSE OwnValue(obj, ref.name)
               ELSE IF ref.fallback = JsUndefined
               THEN IF absent
                    THEN Throw("Missing required parameter: ", ref.name)
                    ELSE OwnValue(obj, ref.name)
               ELSE IF absent \/ OwnValue(obj, ref.name) = JsString(<< >>)
               THEN ref.fallback
               ELSE OwnValue(obj, ref.name)

\* ------------------------------------------------------------------ C35
\* C35: a run whose step loop finishes removes the slot of its key only if
\* the slot still holds its own run ID: a slot that a different run of the
\* same pipeline has reserved stays as it is.
C35_FinishKeepsForeignSlot ==
    [][\A run \in Runs :
          ( /\ InStepLoop(run)
            /\ task'[run].pc = "done"
            /\ activePipelines[task[run].key] \notin {NoRun, run} )
          => activePipelines'[task[run].key] = activePipelines[task[run].key]
      ]_vars

\* ------------------------------------------------------------------ C36
\* C36: whenever the persisted status of a run is terminal (success, failed
\* or cancelled), none of its steps is persisted as pending or running.
C36_TerminalRunHasNoOpenStep ==
    \A run \in Runs :
        dbRuns[run].status \in TERMINAL_STATUSES
        => \A k \in 1 .. NSteps(run) :
               StepStatus(run, k) \notin {"pending", "running"}

\* ------------------------------------------------------------------ C37
\* C37: however often unsubscribe functions are called, and whether or not
\* the Set of the topic was emptied and made anew in between, every listener
\* that has subscribed and has not itself unsubscribed has received every
\* message published on its topic since.
C37_OthersStayConnected ==
    \A id \in SetListeners :
        listenerSets.closure[id].calls = 0
        => listenerSets.got[id] = listenerSets.owed[id]

\* ------------------------------------------------------------------ C38
\* the messages this step passes to publish on the topic of the run
NewlyPublished(run) ==
    {published'[run][n] : n \in (Len(published[run]) + 1) .. Len(published'[run])}

\* C38: when the handler of step k returns successfully although the signal
\* of the run is set, step k is persisted as success with its output; when
\* the step loop then resumes, steps k+1..N go from pending to skipped
\* without a "running" event, the rows of steps 1..k stay as they are (all of
\* them success when k = N) and the run finishes cancelled.
C38_SuccessUnderAbort ==
    [][\A run \in Runs :
          LET k == task[run].i
              N == Len(Defs(run))
          IN  /\ ( /\ task[run].pc = "handler"
                   /\ abort[run]
                   /\ ~task[run].dryRun
                   /\ task'[run].pc = "await"
                   /\ task'[run].result.kind = "success" )
                 => /\ dbSteps'[run][k].status = "success"
                    /\ dbSteps'[run][k].output
              /\ ( /\ task[run].pc = "await"
                   /\ task[run].result.kind = "success"
                   /\ getAction(Defs(run)[k].action)
                   /\ abort[run]
                   /\ task'[run].pc \notin {"await", "dead"} )
                 => /\ task'[run].pc = "done"
                    /\ dbRuns'[run].status = "cancelled"
                    /\ \A j \in 1 .. k : dbSteps'[run][j] = dbSteps[run][j]
                    /\ dbSteps'[run][k].status = "success"
                    /\ \A j \in (k + 1) .. N :
                          /\ dbSteps[run][j].status = "pending"
                          /\ dbSteps'[run][j].status = "skipped"
                    /\ \A m \in NewlyPublished(run) :
                          ~(m.type = "step:status" /\ m.status = "running")
                    /\ (k = N /\ AllRegistered(task[run].key))
                       => \A j \in 1 .. N :
                              dbSteps'[run][j].status = "success"
      ]_vars

\* shutdownAll came while the first handler of a run of ns:p1 was in flight
\* (the run row has its reason, and no handler of the run threw); the handler
\* returned, and the run finished cancelled with the other steps skipped
C38_Witness ==
    \E run \in Runs :
        /\ task[run].pc = "done"
        /\ task[run].key = "ns:p1"
        /\ ~task[run].dryRun
        /\ thrown[run] = NoThrow
        /\ dbRuns[run].status = "cancelled"
        /\ dbRuns[run].error = ServerShutdown
        /\ dbSteps[run][1].status = "success"
        /\ dbSteps[run][1].output
        /\ dbSteps[run][2].status = "skipped"
        /\ dbSteps[run][3].status = "skipped"

\* ------------------------------------------------------------------ C39
\* C39: when a step:status or run:status event is delivered, the store
\* already holds, for that step or run, the status the event carries.
C39_PersistedBeforePublished ==
    \A topic \in Topics :
        /\ Len(storedAtPublish[topic]) = Len(published[topic])
        /\ \A n \in DOMAIN published[topic] :
              published[topic][n].type \in {"step:status", "run:status"}
              => storedAtPublish[topic][n] = published[topic][n].status

\* a run of ns:p2 has finished: its first step went running and skipped in
\* one stretch, its second made it fail, and all four events of these found
\* their status in the store
C39_Witness ==
    \E r \in Runs :
        /\ task[r].pc = "done"
        /\ task[r].key = "ns:p2"
        /\ dbRuns[r].status = "failed"
        /\ Len(published[r]) >= 4
        /\ published[r][2] = Msg("step:status", r, "s1", "running")
        /\ storedAtPublish[r][2] = "running"
        /\ published[r][3] = Msg("step:status", r, "s1", "skipped")
        /\ storedAtPublish[r][3] = "skipped"
        /\ published[r][Len(published[r])] = Msg("run:status", r, "", "failed")
        /\ storedAtPublish[r][Len(published[r])] = "failed"

\* ------------------------------------------------------------------ C40
\* C40: at the step where executePipeline returns the run ID of a new run,
\* no step of that run is persisted as running and no step:status event of
\* it has been published.
C40_StepsStartAfterReturn ==
    [][\A r \in Runs :
          ( /\ task[r].pc = "loading"
            /\ task'[r].pc \notin {"loading", "notfound", "dead"} )
          => /\ \A k \in DOMAIN dbSteps'[r] : dbSteps'[r][k].status # "running"
             /\ \A n \in DOMAIN published'[r] :
                   published'[r][n].type # "step:status"
      ]_vars

====
